---- MODULE Spec2Model ----
(***************************************************************************)
(* libumi: byte-level model of the address / transaction / block           *)
(* verification engine (assert-style predicate lists), of the Merkle root  *)
(* and of transaction and block signing; of the Bech32 text form of an    *)
(* address; and of the verifier written as a list of check functions.     *)
(*                                                                         *)
(* A Go slice is a record [isnil, data]; data is the byte sequence, Go     *)
(* index i is data[i+1].  Errors are their Go message strings, the nil     *)
(* error is NoErr, a run-time panic (index or slice bound out of range)    *)
(* is the result Panic.  ed25519 is the ideal signature scheme: Verify     *)
(* accepts exactly the (public key, message, signature) triples that Sign  *)
(* produced, which the variable signed records.                            *)
(***************************************************************************)
EXTENDS Integers, Sequences, FiniteSets, TLC

VARIABLES buf, signed, err, alt, blk, berr, balt, par, base, mrk, bech, lerr

vars == <<buf, signed, err, alt, blk, berr, balt, par, base, mrk, bech, lerr>>

\* the block a caller is building, the last VerifyBlock result on it, and
\* the offset of the byte altered in it
blkvars == <<blk, berr, balt>>

\* the state of one run of the transaction fan-out (channel, workers, the
\* shared error), and the number of transactions of the block that lie
\* between its header and the bytes held in blk, the last result of
\* CalculateMerkleRoot, the string and the calls of the text-level
\* operations (bech.str the Bech32 string or the names of the setters
\* called, bech.src where it came from, bech.adr and bech.err the result of
\* NewAddressFromBech32), and the last result of the list verifier
auxvars == <<par, base, mrk, bech, lerr>>

-----------------------------------------------------------------------------
(* Bounds of the model. *)

NumKeys == 1
MaxNonce == 1
LenSlack == 1

-----------------------------------------------------------------------------
(* Program constants. *)

TxLength == 150
AddressLength == 34
HeaderLength == 167

Genesis == 0
Basic == 1
CreateStructure == 2
UpdateStructure == 3
UpdateProfitAddress == 4
UpdateFeeAddress == 5
CreateTransitAddress == 6
DeleteTransitAddress == 7

genesis == 0
umi == 21929

chrBitLen == 5
chrBitMask == 31
chrMin == 1
chrMax == 27

maxLength == 35

NoErr == "nil"
Panic == "panic"
ErrInvalidLength == "invalid length"
ErrInvalidVersion == "invalid version"
ErrInvalidSender == "invalid sender"
ErrInvalidRecipient == "invalid recipient"
ErrInvalidPrefix == "invalid prefix"
ErrInvalidProfitPercent == "invalid profit percent"
ErrInvalidFeePercent == "invalid fee percent"
ErrInvalidName == "invalid name"
ErrInvalidSignature == "invalid signature"
ErrInvalidPrevHash == "invalid previous block hash"
ErrInvalidMerkle == "invalid merkle root"
ErrInvalidTx == "invalid transaction"
ErrNonUniqueTx == "non-unique transaction"
ErrInvalidValue == "invalid value"
ErrInvalidAddress == "invalid address"

-----------------------------------------------------------------------------
(* Slices and byte arithmetic. *)

Zeros(n) == [i \in 1..n |-> 0]

Fill(n, c) == [i \in 1..n |-> c]

MkSlice(d) == [isnil |-> FALSE, data |-> d]

NilSlice == [isnil |-> TRUE, data |-> <<>>]

len(b) == Len(b.data)

At(b, i) == b.data[i + 1]

\* b[lo:hi] as a byte sequence
Sub(b, lo, hi) == SubSeq(b.data, lo + 1, hi)

\* copy(d[lo:hi], src) on a byte sequence d
Copy(d, lo, hi, src) ==
    [i \in 1..Len(d) |->
        IF i > lo /\ i <= hi /\ i - lo <= Len(src) THEN src[i - lo] ELSE d[i]]

\* binary.BigEndian.Uint16(d[lo:lo+2])
Uint16(d, lo) == d[lo + 1] * 256 + d[lo + 2]

\* binary.BigEndian.PutUint16(d[lo:lo+2], n)
PutUint16(d, lo, n) == Copy(d, lo, lo + 2, <<(n \div 256) % 256, n % 256>>)

RECURSIVE BitOr(_, _)
BitOr(x, y) ==
    IF x = 0 THEN y
    ELSE IF y = 0 THEN x
    ELSE (IF x % 2 = 1 \/ y % 2 = 1 THEN 1 ELSE 0) + 2 * BitOr(x \div 2, y \div 2)

\* A uint64 is carried as its 8 big-endian bytes.
U64(n) == <<0, 0, 0, 0, (n \div 16777216) % 256, (n \div 65536) % 256, (n \div 256) % 256, n % 256>>

RECURSIVE GreaterBE(_, _)
GreaterBE(x, y) ==
    IF x = <<>> THEN FALSE
    ELSE IF Head(x) # Head(y) THEN Head(x) > Head(y)
    ELSE GreaterBE(Tail(x), Tail(y))

-----------------------------------------------------------------------------
(* Library functions the code calls. *)

IsCont(c) == c >= 128 /\ c <= 191

\* unicode/utf8.Valid
RECURSIVE utf8Valid(_)
utf8Valid(s) ==
    IF s = <<>> THEN TRUE
    ELSE LET c == s[1]
             n == Len(s)
             rest(k) == SubSeq(s, k + 1, n)
         IN  IF c < 128 THEN utf8Valid(rest(1))
             ELSE IF c >= 194 /\ c <= 223
                  THEN n >= 2 /\ IsCont(s[2]) /\ utf8Valid(rest(2))
             ELSE IF c >= 224 /\ c <= 239
                  THEN /\ n >= 3
                       /\ IsCont(s[2])
                       /\ (c = 224 => s[2] >= 160)
                       /\ (c = 237 => s[2] <= 159)
                       /\ IsCont(s[3])
                       /\ utf8Valid(rest(3))
             ELSE IF c >= 240 /\ c <= 244
                  THEN /\ n >= 4
                       /\ IsCont(s[2])
                       /\ (c = 240 => s[2] >= 144)
                       /\ (c = 244 => s[2] <= 143)
                       /\ IsCont(s[3])
                       /\ IsCont(s[4])
                       /\ utf8Valid(rest(4))
             ELSE FALSE

\* The public key of secret key k, and the all-zero key (k = 0).
KeyBytes(k) == Fill(32, k)

\* crypto/ed25519.Verify
ed25519Verify(pub, msg, sig) ==
    \E s \in signed : s.pub = pub /\ s.msg = msg /\ s.sig = sig

\* the n-th signature made, by key sec
SigBytes(sec, n) == <<sec, n>> \o Fill(62, 165)

\* crypto/ed25519.Sign: deterministic in (key, message), fresh otherwise.
ed25519Sign(sec, msg) ==
    IF \E s \in signed : s.pub = KeyBytes(sec) /\ s.msg = msg
    THEN (CHOOSE s \in signed : s.pub = KeyBytes(sec) /\ s.msg = msg).sig
    ELSE SigBytes(sec, Cardinality(signed) + 1)

-----------------------------------------------------------------------------
(* Address: 2-byte version + 32-byte public key.  Go strings are sequences *)
(* of character codes.                                                     *)

StrGenesis == <<103, 101, 110, 101, 115, 105, 115>>

\* uint8 subtraction c - 96
Sub96(c) == (c - 96 + 256) % 256

\* prefixToVersion without the low bits of the second letter in b
prefixToVersion_NoCarry(s) ==
    IF s # StrGenesis
    THEN <<BitOr((Sub96(s[1]) * 4) % 256, Sub96(s[2]) \div 8), Sub96(s[3])>>
    ELSE <<0, 0>>

prefixToVersion(s) ==
    IF s # StrGenesis
    THEN <<BitOr((Sub96(s[1]) * 4) % 256, Sub96(s[2]) \div 8),
           BitOr((Sub96(s[2]) * 32) % 256, Sub96(s[3]))>>
    ELSE <<0, 0>>

Address_SetVersion(a, v) == PutUint16(a, 0, v)

Address_SetPrefix(a, s) == Copy(a, 0, 2, prefixToVersion(s))

Address_SetPublicKey(a, k) == Copy(a, 2, 34, k)

Address_Version(a) == Uint16(a, 0)

versionToPrefix(a, b) ==
    IF a = 0 /\ b = 0 THEN StrGenesis
    ELSE <<((a \div 4) % 32) + 96,
           BitOr((a % 4) * 8, b \div 32) + 96,
           (b % 32) + 96>>

Address_Prefix(a) == versionToPrefix(a[1], a[2])

NewAddress == Address_SetVersion(Zeros(AddressLength), umi)

-----------------------------------------------------------------------------
(* Bech32 text form of an address.  A string is the sequence of its bytes; *)
(* the inputs are ASCII, so ranging over runes is ranging over bytes.      *)

bech32Alphabet ==
    <<113, 112, 122, 114, 121, 57, 120, 56, 103, 102, 50, 116, 118, 100, 119, 48,
      115, 51, 106, 110, 53, 52, 107, 104, 99, 101, 54, 109, 117, 97, 55, 108>>

gen == <<996825010, 642813549, 513874426, 1027748829, 705979059>>

\* strings.IndexByte(s, c)
IndexByte(s, c) ==
    IF \E i \in 1..Len(s) : s[i] = c
    THEN (CHOOSE i \in 1..Len(s) : s[i] = c /\ \A j \in 1..(i - 1) : s[j] # c) - 1
    ELSE -1

\* strings.LastIndexByte(s, c)
LastIndexByte(s, c) ==
    IF \E i \in 1..Len(s) : s[i] = c
    THEN (CHOOSE i \in 1..Len(s) : s[i] = c /\ \A j \in (i + 1)..Len(s) : s[j] # c) - 1
    ELSE -1

\* strings.ToLower(s) on ASCII
ToLower(s) == [i \in 1..Len(s) |-> IF s[i] \in 65..90 THEN s[i] + 32 ELSE s[i]]

\* x ^ y on naturals below 2^31: the sum over bits 0..30 of the bits in which
\* x and y differ; bits[<<lo, hi>>] is the sum over bits lo..hi
XorBits(x, y) ==
    LET bits[r \in Nat \X Nat] ==
            IF r[1] = r[2]
            THEN (((x \div (2 ^ r[1])) + (y \div (2 ^ r[1]))) % 2) * (2 ^ r[1])
            ELSE LET mid == (r[1] + r[2]) \div 2
                 IN  bits[<<r[1], mid>>] + bits[<<mid + 1, r[2]>>]
    IN  bits[<<0, 30>>]

\* x ^ y on two's-complement ints (^ -1 is the complement -x - 1)
Xor(x, y) ==
    IF x < 0 /\ y < 0 THEN XorBits(-x - 1, -y - 1)
    ELSE IF x < 0 THEN -XorBits(-x - 1, y) - 1
    ELSE IF y < 0 THEN -XorBits(x, -y - 1) - 1
    ELSE XorBits(x, y)

RECURSIVE polyGen(_, _, _)
polyGen(chk, b, i) ==
    IF i > 4 THEN chk
    ELSE polyGen(IF (b \div (2 ^ i)) % 2 = 1 THEN Xor(chk, gen[i + 1]) ELSE chk, b, i + 1)

\* one round of the loop over values
polyRound(chk, v) == polyGen(Xor((chk % 33554432) * 32, v), chk \div 33554432, 0)

\* loop[<<lo, hi, chk>>] is chk after the rounds for values[lo..hi], taken in
\* order: those of the first half of the range, then those of the second
bech32PolyMod(values) ==
    LET loop[p \in Nat \X Nat \X Int] ==
            IF p[1] > p[2] THEN p[3]
            ELSE IF p[1] = p[2] THEN polyRound(p[3], values[p[1]])
            ELSE LET mid == (p[1] + p[2]) \div 2
                 IN  loop[<<mid + 1, p[2], loop[<<p[1], mid, p[3]>>]>>]
    IN  loop[<<1, Len(values), 1>>]

bech32PrefixExpand(p) ==
    [i \in 1..(2 * Len(p) + 1) |->
        IF i <= Len(p) THEN p[i] \div 32
        ELSE IF i = Len(p) + 1 THEN 0
        ELSE p[i - Len(p) - 1] % 32]

\* the values a checksum is computed over: expanded prefix, then data indexes
checksumValues(prefix, data) ==
    bech32PrefixExpand(prefix) \o [i \in 1..Len(data) |-> IndexByte(bech32Alphabet, data[i])]

bech32CreateChecksum(prefix, data) ==
    LET p == Xor(bech32PolyMod(checksumValues(prefix, data) \o <<0, 0, 0, 0, 0, 0>>), 1)
    IN  [i \in 1..6 |-> bech32Alphabet[((p \div (2 ^ (5 * (6 - i)))) % 32) + 1]]

bech32VerifyChecksum(prefix, data) == bech32PolyMod(checksumValues(prefix, data)) = 1

\* The state of a regrouping loop is <<acc, bits, output>>, with -1 for bits
\* once the loop has returned an error.  acc is kept to its low 12 bits: no
\* higher bit is read.
RECURSIVE emit5(_, _, _)
emit5(acc, bits, res) ==
    IF bits >= 5
    THEN emit5(acc, bits - 5, Append(res, bech32Alphabet[((acc \div (2 ^ (bits - 5))) % 32) + 1]))
    ELSE <<acc, bits, res>>

\* one round of the loop of bech32Convert8to5
round8to5(st, b) == emit5(((st[1] * 256) % 4096) + b, st[2] + 8, st[3])

\* loop[<<lo, hi, st>>] is the state after the rounds for data[lo..hi], taken
\* in order
loop8to5(data) ==
    LET loop[p \in Nat \X Nat \X (Nat \X Nat \X Seq(Nat))] ==
            IF p[1] > p[2] THEN p[3]
            ELSE IF p[1] = p[2] THEN round8to5(p[3], data[p[1]])
            ELSE LET mid == (p[1] + p[2]) \div 2
                 IN  loop[<<mid + 1, p[2], loop[<<p[1], mid, p[3]>>]>>]
    IN  loop[<<1, Len(data), <<0, 0, <<>>>>>>]

\* regrouping that drops the padded last group
bech32Convert8to5_NoTail(data) == loop8to5(data)[3]

bech32Convert8to5(data) ==
    LET st == loop8to5(data)
    IN  IF st[2] > 0
        THEN Append(st[3], bech32Alphabet[((st[1] * (2 ^ (5 - st[2]))) % 32) + 1])
        ELSE st[3]

RECURSIVE emit8(_, _, _)
emit8(acc, bits, out) ==
    IF bits >= 8
    THEN emit8(acc, bits - 8, Append(out, (acc \div (2 ^ (bits - 8))) % 256))
    ELSE <<acc, bits, out>>

\* one round of the loop of bech32Convert5to8
round5to8(st, b) ==
    LET v == IndexByte(bech32Alphabet, b)
    IN  IF st[2] = -1 \/ v = -1 THEN <<0, -1, <<>>>>
        ELSE emit8(((st[1] * 32) % 4096) + v, st[2] + 5, st[3])

loop5to8(data) ==
    LET loop[p \in Nat \X Nat \X (Nat \X Int \X Seq(Nat))] ==
            IF p[1] > p[2] THEN p[3]
            ELSE IF p[1] = p[2] THEN round5to8(p[3], data[p[1]])
            ELSE LET mid == (p[1] + p[2]) \div 2
                 IN  loop[<<mid + 1, p[2], loop[<<p[1], mid, p[3]>>]>>]
    IN  loop[<<1, Len(data), <<0, 0, <<>>>>>>]

bech32Convert5to8(data) ==
    LET st == loop5to8(data)
    IN  IF st[2] = -1 \/ st[2] >= 5 \/ (st[1] * (2 ^ (8 - st[2]))) % 256 > 0
        THEN [out |-> <<>>, err |-> ErrInvalidAddress]
        ELSE [out |-> st[3], err |-> NoErr]

bech32Encode(pfx, pub) ==
    LET data == bech32Convert8to5(pub)
    IN  pfx \o <<49>> \o data \o bech32CreateChecksum(pfx, data)

\* data[0:32] of a slice made with capacity 32: a shorter result is extended
\* with the zero bytes of its backing array, a longer one is cut
first32(out) == [i \in 1..32 |-> IF i <= Len(out) THEN out[i] ELSE 0]

bech32Decode(s) ==
    IF Len(s) # 62 /\ Len(s) # 66
    THEN [pfx |-> <<>>, data |-> <<>>, err |-> ErrInvalidAddress]
    ELSE LET lower == ToLower(s)
             sep   == LastIndexByte(lower, 49)
         IN  IF sep = -1
             THEN [pfx |-> <<>>, data |-> <<>>, err |-> ErrInvalidAddress]
             ELSE IF sep + 1 > Len(lower) - 6
             THEN [pfx |-> <<>>, data |-> <<>>, err |-> Panic]
             ELSE LET c   == bech32Convert5to8(SubSeq(lower, sep + 2, Len(lower) - 6))
                      pfx == SubSeq(lower, 1, sep)
                  IN  IF c.err # NoErr
                      THEN [pfx |-> <<>>, data |-> <<>>, err |-> c.err]
                      ELSE IF ~bech32VerifyChecksum(pfx, SubSeq(lower, sep + 2, Len(lower)))
                      THEN [pfx |-> pfx, data |-> <<>>, err |-> ErrInvalidAddress]
                      ELSE [pfx |-> pfx, data |-> first32(c.out), err |-> NoErr]

Address_PublicKey(a) == SubSeq(a, 3, 34)

Address_Bech32(a) == bech32Encode(Address_Prefix(a), Address_PublicKey(a))

\* SetPrefix reads s[0], s[1], s[2] of every prefix other than "genesis"
NewAddressFromBech32(s) ==
    LET d == bech32Decode(s)
    IN  IF d.err # NoErr THEN [adr |-> <<>>, err |-> d.err]
        ELSE IF d.pfx # StrGenesis /\ Len(d.pfx) < 3 THEN [adr |-> <<>>, err |-> Panic]
        ELSE [adr |-> Address_SetPublicKey(Address_SetPrefix(NewAddress, d.pfx), d.data),
              err |-> NoErr]

-----------------------------------------------------------------------------
(* Transaction accessors over the 150-byte buffer. *)

SetVersion(t, n) == Copy(t, 0, 1, <<n>>)

NewTransaction == SetVersion(Zeros(TxLength), Basic)

Version(t) == t[1]

Sender(t) == SubSeq(t, 2, 35)

SetSender(t, a) == Copy(t, 1, 35, a)

Recipient(t) == SubSeq(t, 36, 69)

SetRecipient(t, a) == Copy(t, 35, 69, a)

Value(t) == SubSeq(t, 70, 77)

SetValue(t, n) == Copy(t, 69, 77, n)

Prefix(t) == versionToPrefix(t[36], t[37])

SetPrefix(t, s) == Copy(t, 35, 37, prefixToVersion(s))

ProfitPercent(t) == Uint16(t, 37)

SetProfitPercent(t, n) == PutUint16(t, 37, n)

FeePercent(t) == Uint16(t, 39)

SetFeePercent(t, p) == PutUint16(t, 39, p)

\* t[42:(42 + t[41])], the bound computed in uint8; the slice expression
\* panics when the bound is below 42 or above the capacity
Name(t) ==
    LET hi == (42 + t[42]) % 256
    IN  IF hi < 42 \/ hi > Len(t) THEN [text |-> <<>>, err |-> Panic]
        ELSE [text |-> SubSeq(t, 43, hi), err |-> NoErr]

\* SetName writing the length into byte 40
SetName_LenAt40(t, s) == Copy(Copy(t, 40, 41, <<Len(s) % 256>>), 42, 77, s)

SetName(t, s) == Copy(Copy(t, 41, 42, <<Len(s) % 256>>), 42, 77, s)

setTxNonce(t, n) == Copy(t, 77, 85, n)

setTxSignature(t, sig) == Copy(t, 85, 149, sig)

-----------------------------------------------------------------------------
(* The predicates of the assert engine.  A predicate takes the slice and   *)
(* yields an error, NoErr, or Panic when it reads past the slice.  A list  *)
(* of predicates is given to runAsserts as the sequence of their results   *)
(* on the buffer: the predicates are pure, so the first result that is not *)
(* NoErr is what the loop returns, and results after it are never looked   *)
(* at (the code never runs those predicates).                              *)

RECURSIVE runAsserts(_)
runAsserts(asserts) ==
    IF asserts = <<>> THEN NoErr
    ELSE IF Head(asserts) # NoErr THEN Head(asserts)
    ELSE runAsserts(Tail(asserts))

assert(asserts) == runAsserts(asserts)

ifVersionIsGenesis(b, asserts) ==
    IF len(b) < 1 THEN Panic
    ELSE IF At(b, 0) = Genesis THEN runAsserts(asserts) ELSE NoErr

ifVersionIsBasic(b, asserts) ==
    IF len(b) < 1 THEN Panic
    ELSE IF At(b, 0) = Basic THEN runAsserts(asserts) ELSE NoErr

ifVersionIsCreateOrUpdateStruct(b, asserts) ==
    IF len(b) < 1 THEN Panic
    ELSE IF At(b, 0) \in {CreateStructure, UpdateStructure}
         THEN runAsserts(asserts) ELSE NoErr

ifVersionIsUpdateAddress(b, asserts) ==
    IF len(b) < 1 THEN Panic
    ELSE IF At(b, 0) \in {UpdateProfitAddress, UpdateFeeAddress,
                          CreateTransitAddress, DeleteTransitAddress}
         THEN runAsserts(asserts) ELSE NoErr

\* lengthIs accepting every buffer of at least l bytes
lengthIs_AtLeast(l, b) ==
    IF b.isnil \/ len(b) < l THEN ErrInvalidLength ELSE NoErr

lengthIs(l, b) ==
    IF b.isnil \/ len(b) # l THEN ErrInvalidLength ELSE NoErr

adrVersionIsValid(v) ==
    IF v = genesis THEN NoErr
    ELSE IF \E i \in 0..2 :
                LET chr == (v \div (2 ^ (i * chrBitLen))) % (chrBitMask + 1)
                IN  chr < chrMin \/ chr > chrMax
         THEN ErrInvalidPrefix
         ELSE NoErr

txVersionIsValid(v) ==
    IF v > DeleteTransitAddress THEN ErrInvalidVersion ELSE NoErr

blkVersionIsValid(v) ==
    IF v > Basic THEN ErrInvalidVersion ELSE NoErr

versionIsValid(b) ==
    IF len(b) = AddressLength THEN adrVersionIsValid(Address_Version(b.data))
    ELSE IF len(b) = TxLength THEN txVersionIsValid(Version(b.data))
    ELSE IF len(b) < 1 THEN Panic
    ELSE blkVersionIsValid(At(b, 0))

\* signatureIsValid without the block's offsets: only a transaction is checked
signatureIsValid_TxOnly(b) ==
    IF len(b) < 149 THEN Panic
    ELSE IF len(b) # TxLength THEN NoErr
    ELSE IF ~ed25519Verify(Sub(b, 3, 35), Sub(b, 0, 85), Sub(b, 85, 149))
         THEN ErrInvalidSignature ELSE NoErr

\* signatureIsValid checking the signature against the key alone
signatureIsValid_KeyOnly(b) ==
    IF len(b) < 149 THEN Panic
    ELSE IF len(b) # TxLength
         THEN IF len(b) < 167 THEN Panic
              ELSE IF ~\E s \in signed : s.pub = Sub(b, 71, 103) /\ s.sig = Sub(b, 103, 167)
                   THEN ErrInvalidSignature ELSE NoErr
         ELSE IF ~\E s \in signed : s.pub = Sub(b, 3, 35) /\ s.sig = Sub(b, 85, 149)
              THEN ErrInvalidSignature ELSE NoErr

signatureIsValid(b) ==
    IF len(b) < 149 THEN Panic
    ELSE IF len(b) # TxLength
         THEN IF len(b) < 167 THEN Panic
              ELSE IF ~ed25519Verify(Sub(b, 71, 103), Sub(b, 0, 103), Sub(b, 103, 167))
                   THEN ErrInvalidSignature ELSE NoErr
         ELSE IF ~ed25519Verify(Sub(b, 3, 35), Sub(b, 0, 85), Sub(b, 85, 149))
              THEN ErrInvalidSignature ELSE NoErr

senderPrefixIs(v, b) ==
    IF len(b) < 35 THEN Panic
    ELSE IF Address_Version(Sender(b.data)) # v THEN ErrInvalidSender ELSE NoErr

senderPrefixNot(v, b) ==
    IF len(b) < 35 THEN Panic
    ELSE IF Address_Version(Sender(b.data)) = v THEN ErrInvalidSender ELSE NoErr

senderPrefixIsValid(b) ==
    IF len(b) < 35 THEN Panic
    ELSE IF adrVersionIsValid(Address_Version(Sender(b.data))) # NoErr
         THEN ErrInvalidSender ELSE NoErr

senderRecipientNotEqual(b) ==
    IF len(b) < 69 THEN Panic
    ELSE IF Recipient(b.data) = Sender(b.data) THEN ErrInvalidRecipient ELSE NoErr

recipientPrefixIs(v, b) ==
    IF len(b) < 69 THEN Panic
    ELSE IF Address_Version(Recipient(b.data)) # v THEN ErrInvalidRecipient ELSE NoErr

recipientPrefixNot(vs, b) ==
    IF len(b) < 69 THEN Panic
    ELSE IF \E i \in 1..Len(vs) : Address_Version(Recipient(b.data)) = vs[i]
         THEN ErrInvalidRecipient ELSE NoErr

recipientPrefixIsValid(b) ==
    IF len(b) < 69 THEN Panic
    ELSE IF adrVersionIsValid(Address_Version(Recipient(b.data))) # NoErr
         THEN ErrInvalidRecipient ELSE NoErr

structPrefixNot(vs, b) ==
    IF len(b) < 69 THEN Panic
    ELSE IF \E i \in 1..Len(vs) : Address_Version(Recipient(b.data)) = vs[i]
         THEN ErrInvalidPrefix ELSE NoErr

structPrefixIsValid(b) ==
    IF len(b) < 69 THEN Panic
    ELSE IF adrVersionIsValid(Address_Version(Recipient(b.data))) # NoErr
         THEN ErrInvalidPrefix ELSE NoErr

nameIsValidUtf8(b) ==
    IF len(b) < 42 THEN Panic
    ELSE IF At(b, 41) > maxLength THEN ErrInvalidName
    ELSE IF len(b) < 42 + At(b, 41) THEN Panic
    ELSE IF ~utf8Valid(Sub(b, 42, 42 + At(b, 41))) THEN ErrInvalidName
    ELSE NoErr

feePercentBetween(lo, hi, b) ==
    IF len(b) < 41 THEN Panic
    ELSE LET p == FeePercent(b.data)
         IN  IF p < lo \/ p > hi THEN ErrInvalidFeePercent ELSE NoErr

profitPercentBetween(lo, hi, b) ==
    IF len(b) < 39 THEN Panic
    ELSE LET p == ProfitPercent(b.data)
         IN  IF p < lo \/ p > hi THEN ErrInvalidProfitPercent ELSE NoErr

-----------------------------------------------------------------------------
(* The verifiers. *)

VerifyTransaction(t) ==
    assert(<<
        lengthIs(TxLength, t),
        versionIsValid(t),
        ifVersionIsGenesis(t, <<
            senderPrefixIs(genesis, t),
            recipientPrefixIs(umi, t)>>),
        ifVersionIsBasic(t, <<
            senderPrefixIsValid(t),
            recipientPrefixIsValid(t),
            senderRecipientNotEqual(t),
            senderPrefixNot(genesis, t),
            recipientPrefixNot(<<genesis>>, t)>>),
        ifVersionIsCreateOrUpdateStruct(t, <<
            senderPrefixIs(umi, t),
            structPrefixNot(<<genesis, umi>>, t),
            structPrefixIsValid(t),
            profitPercentBetween(0, 500, t),
            feePercentBetween(100, 2000, t),
            nameIsValidUtf8(t)>>),
        ifVersionIsUpdateAddress(t, <<
            senderPrefixIs(umi, t),
            recipientPrefixNot(<<genesis, umi>>, t),
            recipientPrefixIsValid(t)>>),
        signatureIsValid(t)>>)

VerifyAddress(b) ==
    assert(<<lengthIs(AddressLength, b), versionIsValid(b)>>)

\* SignTransaction stamps the nonce (the clock reading now, 8 bytes) and
\* the signature over t[0:85].
SignTransaction(t, sec, now) ==
    LET t1 == setTxNonce(t, now)
    IN  setTxSignature(t1, ed25519Sign(sec, SubSeq(t1, 1, 85)))

-----------------------------------------------------------------------------
(* Blocks: a 167-byte header followed by 150-byte transactions.            *)

\* crypto/sha256.Sum256, as an ideal hash: four position-weighted sums of
\* the message bytes, with its length, spread over the 32 bytes of the digest.
RECURSIVE sha256Fold(_, _, _, _)
sha256Fold(m, j, lo, hi) ==
    IF lo > hi THEN 0
    ELSE IF lo = hi THEN ((m[lo] + 1) * (((lo * j) % 251) + 1)) % 65521
    ELSE LET mid == (lo + hi) \div 2
         IN  (sha256Fold(m, j, lo, mid) + sha256Fold(m, j, mid + 1, hi)) % 65521

sha256Sum(m) ==
    LET s(j) == (sha256Fold(m, j, 1, Len(m)) + Len(m) + j) % 65521
        c == <<s(1), s(2), s(3), s(4)>>
    IN  [k \in 1..32 |->
            IF k % 2 = 1 THEN ((c[(((k - 1) \div 2) % 4) + 1] \div 256) + (k \div 8)) % 256
            ELSE c[(((k - 1) \div 2) % 4) + 1] % 256]

Block_SetVersion(b, ver) == Copy(b, 0, 1, <<ver>>)

NewBlock == Block_SetVersion(Zeros(HeaderLength), Basic)

Block_Hash(b) == sha256Sum(SubSeq(b, 1, HeaderLength))

Block_PreviousBlockHash(b) == SubSeq(b, 2, 33)

Block_SetPreviousBlockHash(b, h) == Copy(b, 1, 33, h)

Block_MerkleRootHash(b) == SubSeq(b, 34, 65)

Block_SetMerkleRootHash(b, h) == Copy(b, 33, 65, h)

Block_TxCount(b) == Uint16(b, 69)

Block_SetPublicKey(b, k) == Copy(b, 71, 103, k)

Block_SetSignature(b, s) == Copy(b, 103, 167, s)

\* Block.Transaction(idx): b[x:y]
Block_Transaction(b, idx) ==
    SubSeq(b, HeaderLength + idx * TxLength + 1, HeaderLength + idx * TxLength + TxLength)

\* AppendTransaction: the count is a uint16
AppendTransaction(b, t) ==
    PutUint16(b \o t, 69, (Block_TxCount(b \o t) + 1) % 65536)

\* Block.Sign: the public key first, then the signature over b[:103]
Block_Sign(b, sec) ==
    LET b1 == Block_SetPublicKey(b, KeyBytes(sec))
    IN  Block_SetSignature(b1, ed25519Sign(sec, SubSeq(b1, 1, 103)))

min(a, b) == IF a > b THEN b ELSE a

\* next without rounding an odd count up
next_NoRound(count) == <<count \div 2, count - 1>>

\* next(count) = <<nextCount, maxIdx>>
next(count) ==
    <<(IF count > 2 THEN count + (count % 2) ELSE count) \div 2, count - 1>>

\* step 1 of CalculateMerkleRoot: the leaves h[0..c)
merkleLeaves(b, c) == [i \in 1..c |-> sha256Sum(Block_Transaction(b, i - 1))]

\* the inner loop of step 2, updating h in place for i = 0..n-1
RECURSIVE merkleLevel(_, _, _, _)
merkleLevel(h, i, n, m) ==
    IF i >= n THEN h
    ELSE merkleLevel([h EXCEPT ![i + 1] = sha256Sum(h[i * 2 + 1] \o h[min(i * 2 + 1, m) + 1])],
                     i + 1, n, m)

\* the outer loop of step 2: for n, m := next(c); n > 0; n, m = next(n)
RECURSIVE merkleReduce(_, _)
merkleReduce(h, c) ==
    LET nm == next(c)
    IN  IF nm[1] > 0 THEN merkleReduce(merkleLevel(h, 0, nm[1], nm[2]), nm[1]) ELSE h

\* CalculateMerkleRoot: the pair (hsh, err); hsh is nil (<<>>) with an error.
\* Step 1 hashes the transactions in order and stops at the first hash seen
\* before; slicing a transaction past the buffer, or h[0] of an empty h,
\* panics (the buffer's capacity is taken to be its length).
\* CalculateMerkleRoot without the map u of step 1
CalculateMerkleRoot_NoUniq(b) ==
    IF len(b) < 71 THEN [hsh |-> <<>>, err |-> Panic]
    ELSE LET c == Block_TxCount(b.data)
             present == IF len(b) < HeaderLength THEN 0
                        ELSE min(c, (len(b) - HeaderLength) \div TxLength)
             h == merkleLeaves(b.data, present)
         IN  IF present < c \/ c = 0 THEN [hsh |-> <<>>, err |-> Panic]
             ELSE [hsh |-> merkleReduce(h, c)[1], err |-> NoErr]

CalculateMerkleRoot(b) ==
    IF len(b) < 71 THEN [hsh |-> <<>>, err |-> Panic]
    ELSE LET c == Block_TxCount(b.data)
             present == IF len(b) < HeaderLength THEN 0
                        ELSE min(c, (len(b) - HeaderLength) \div TxLength)
             h == merkleLeaves(b.data, present)
         IN  IF \E i, j \in 1..present : i < j /\ h[i] = h[j]
             THEN [hsh |-> <<>>, err |-> ErrNonUniqueTx]
             ELSE IF present < c \/ c = 0 THEN [hsh |-> <<>>, err |-> Panic]
             ELSE [hsh |-> merkleReduce(h, c)[1], err |-> NoErr]

\* lengthIsValid with the lower bound alone
lengthIsValid_MinOnly(b) ==
    IF len(b) < HeaderLength + TxLength THEN ErrInvalidLength
    ELSE NoErr

lengthIsValid(b) ==
    IF len(b) < HeaderLength + TxLength THEN ErrInvalidLength
    ELSE IF len(b) # HeaderLength + TxLength * Block_TxCount(b.data) THEN ErrInvalidLength
    ELSE NoErr

\* merkleRootIsValid dropping the error of CalculateMerkleRoot
merkleRootIsValid_RootOnly(b) ==
    LET r == CalculateMerkleRoot(b)
    IN  IF len(b) < 65 THEN Panic
        ELSE IF Block_MerkleRootHash(b.data) # r.hsh THEN ErrInvalidMerkle
        ELSE NoErr

merkleRootIsValid(b) ==
    LET r == CalculateMerkleRoot(b)
    IN  IF r.err # NoErr THEN r.err
        ELSE IF Block_MerkleRootHash(b.data) # r.hsh THEN ErrInvalidMerkle
        ELSE NoErr

prevBlockHashIsNull(b) ==
    IF len(b) < 33 THEN Panic
    ELSE IF Block_PreviousBlockHash(b.data) # Zeros(32) THEN ErrInvalidPrevHash ELSE NoErr

\* prevBlockHashNotNull with the comparison of prevBlockHashIsNull
prevBlockHashNotNull_Swapped(b) ==
    IF len(b) < 33 THEN Panic
    ELSE IF Block_PreviousBlockHash(b.data) # Zeros(32) THEN ErrInvalidPrevHash ELSE NoErr

prevBlockHashNotNull(b) ==
    IF len(b) < 33 THEN Panic
    ELSE IF Block_PreviousBlockHash(b.data) = Zeros(32) THEN ErrInvalidPrevHash ELSE NoErr

\* the byte offsets i = HeaderLength, HeaderLength + TxLength, ... < len(b)
txOffsets(b) ==
    {i \in HeaderLength..(len(b) - 1) : (i - HeaderLength) % TxLength = 0}

allTransactionAreGenesis(b) ==
    IF \E i \in txOffsets(b) : At(b, i) # Genesis THEN ErrInvalidTx ELSE NoErr

\* allTransactionNotGenesis looking at the first transaction alone
allTransactionNotGenesis_FirstOnly(b) ==
    IF len(b) > HeaderLength /\ At(b, HeaderLength) = Genesis THEN ErrInvalidTx ELSE NoErr

allTransactionNotGenesis(b) ==
    IF \E i \in txOffsets(b) : At(b, i) = Genesis THEN ErrInvalidTx ELSE NoErr

\* Every transaction is taken from the channel by exactly one worker, and a
\* worker that finds a failing one returns ErrInvalidTx, the only value any
\* worker ever writes to err.
allTransactionsAreValid(b) ==
    IF len(b) < 71 THEN Panic
    ELSE LET n == Block_TxCount(b.data)
         IN  IF len(b) < HeaderLength + n * TxLength THEN Panic
             ELSE IF \E i \in 0..(n - 1) :
                        VerifyTransaction(MkSlice(Block_Transaction(b.data, i))) # NoErr
                  THEN ErrInvalidTx ELSE NoErr

\* VerifyBlock: the list itself is not among the sources.  Its predicates
\* are those above (spec section 4.3); their order is the one the tests of
\* block_test.go pin down: an unsigned Basic block with a zero previous hash
\* gives ErrInvalidSignature, a signed Genesis block with a non-zero previous
\* hash and a Basic transaction ErrInvalidPrevHash, a signed block with a
\* transaction of the wrong kind and no Merkle root ErrInvalidTx, and a
\* signed block with unsigned transactions ErrNonUniqueTx or ErrInvalidMerkle.
VerifyBlock(b) ==
    assert(<<
        lengthIsValid(b),
        versionIsValid(b),
        signatureIsValid(b),
        ifVersionIsGenesis(b, <<
            prevBlockHashIsNull(b),
            allTransactionAreGenesis(b)>>),
        ifVersionIsBasic(b, <<
            prevBlockHashNotNull(b),
            allTransactionNotGenesis(b)>>),
        merkleRootIsValid(b),
        allTransactionsAreValid(b)>>)

-----------------------------------------------------------------------------
(* Inputs: the buffers callers build with the constructors and setters.    *)

\* CalculateMerkleRoot has not been called
NoMerkle == [hsh |-> <<>>, err |-> "none"]

\* no Bech32 text has been produced or decoded, no prefix passed
NoBech == [src |-> "none", str |-> <<>>, adr |-> <<>>, err |-> "none"]

\* no fan-out is running
ParIdle ==
    [cpu |-> 0, i |-> 0, pc |-> <<>>, er |-> <<>>, ch |-> <<>>, sent |-> 0,
     closed |-> FALSE, err |-> <<0, 0>>, wg |-> 0, ret |-> "none"]

StrUmi == <<117, 109, 105>>
StrAaa == <<97, 97, 97>>
StrBrace == <<123, 97, 97>>
StrBad == <<125, 125, 125>>

PrefixStrings == {StrGenesis, StrUmi, StrAaa, StrBrace, StrBad}

\* address versions: "genesis", "umi", "aaa", "{aa" and 1 (fields 0, 0, 1)
AdrVersions == {genesis, umi, 1057, 27681, 1}

Keys == 0..NumKeys

SecretKeys == 1..NumKeys

Nonces == {U64(n) : n \in 1..MaxNonce}

TxVersions == 0..(DeleteTransitAddress + 1)

\* 2^53 - 1 and its neighbours, byte by byte
MaxSafeBytes == <<0, 31, 255, 255, 255, 255, 255, 255>>

OverSafeBytes == <<0, 32, 0, 0, 0, 0, 0, 0>>

Values == {U64(42), MaxSafeBytes, OverSafeBytes}

Profits == {0, 99, 100, 500, 501}

Fees == {0, 1, 2000, 2001}

\* "", 35 and 36 letters, a two-byte rune, and two ill-formed strings
Names == {<<>>, Fill(35, 97), Fill(36, 97), <<195, 169>>, <<255, 1>>, <<97, 195>>}

Adr(v, k) == Address_SetPublicKey(Address_SetVersion(NewAddress, v), KeyBytes(k))

BaseTx(ver, sv, sk) == SetSender(SetVersion(NewTransaction, ver), Adr(sv, sk))

AddrTx(ver, sv, sk, rv, rk, val) ==
    SetValue(SetRecipient(BaseTx(ver, sv, sk), Adr(rv, rk)), val)

StructTx(ver, sv, sk, pfx, prf, fee, name) ==
    SetName(SetFeePercent(SetProfitPercent(SetPrefix(BaseTx(ver, sv, sk), pfx), prf), fee), name)

\* every version with every pair of address versions, the recipient's key
\* the zero key or key 1; and the values at the limit with a few addresses
AddrTxs ==
    {AddrTx(ver, sv, sk, rv, rk, U64(42)) :
        ver \in TxVersions, sv \in AdrVersions, sk \in SecretKeys,
        rv \in AdrVersions, rk \in {0, 1}}
    \cup {AddrTx(ver, sv, sk, rv, 0, val) :
            ver \in TxVersions, sv \in {genesis, umi}, sk \in SecretKeys,
            rv \in {umi, 1057}, val \in Values}

\* structure fields: every prefix, profit and fee with the empty name, and
\* every name with the profit and fee values around their limits
StructFields ==
    {<<pfx, prf, fee, <<>>>> : pfx \in PrefixStrings, prf \in Profits, fee \in Fees}
    \cup {<<StrAaa, prf, fee, name>> :
            prf \in {99, 100, 501}, fee \in {2000, 2001}, name \in Names}

\* the structure versions with all of these fields, and every version with
\* a few of them
StructTxs ==
    {StructTx(ver, sv, sk, f[1], f[2], f[3], f[4]) :
        ver \in {CreateStructure, UpdateStructure}, sv \in {genesis, umi, 27681},
        sk \in SecretKeys, f \in StructFields}
    \cup {StructTx(ver, umi, sk, StrAaa, prf, 2001, name) :
            ver \in TxVersions, sk \in SecretKeys, prf \in {100, 501},
            name \in {<<>>, Fill(36, 97)}}

\* make([]byte, n) filled from d: d cut or zero-extended to n bytes
Resize(d, n) == [i \in 1..n |-> IF i <= Len(d) THEN d[i] ELSE 0]

OtherLengths ==
    ({0, AddressLength, HeaderLength + TxLength}
        \cup ((TxLength - LenSlack)..(TxLength + LenSlack))) \ {TxLength}

OddBuffers ==
    {Resize(d, n) : d \in {NewTransaction, AddrTx(Basic, umi, 1, 1057, 0, U64(42))},
                    n \in OtherLengths}

TxInputs ==
    {MkSlice(d) : d \in AddrTxs \cup StructTxs \cup OddBuffers} \cup {NilSlice}

-----------------------------------------------------------------------------
(* The state machine: a caller holds one buffer, may sign it once, and    *)
(* has it verified.                                                        *)

NotVerified == "none"

Init ==
    /\ buf \in TxInputs
    /\ signed = {}
    /\ err = NotVerified
    /\ alt = -1
    /\ blk = MkSlice(NewBlock)
    /\ berr = NotVerified
    /\ balt = -1
    /\ par = ParIdle
    /\ base = 0
    /\ mrk = NoMerkle
    /\ bech = NoBech
    /\ lerr = NotVerified

CallSignTransaction(sec, now) ==
    /\ len(buf) >= 149
    /\ alt = -1
    /\ Sub(buf, 85, 149) = Zeros(64)
    /\ LET t == SignTransaction(buf.data, sec, now)
       IN  /\ buf' = MkSlice(t)
           /\ signed' = signed \cup {[pub |-> KeyBytes(sec),
                                      msg |-> SubSeq(t, 1, 85),
                                      sig |-> SubSeq(t, 86, 149)]}
    /\ err' = NotVerified
    /\ lerr' = NotVerified
    /\ UNCHANGED <<alt, blkvars, par, base, mrk, bech>>

CallVerifyTransaction ==
    /\ err = NotVerified
    /\ err' = VerifyTransaction(buf)
    /\ UNCHANGED <<buf, signed, alt, blkvars, auxvars>>

Next ==
    \/ \E sec \in SecretKeys, now \in Nonces : CallSignTransaction(sec, now)
    \/ CallVerifyTransaction

Spec == Init /\ [][Next]_vars

-----------------------------------------------------------------------------
(* Address verification: every 16-bit version in a 34-byte address, and    *)
(* buffers of other lengths.                                               *)

MaxUint16 == 65535

AdrInputs ==
    {MkSlice(Address_SetVersion(NewAddress, v)) : v \in 0..MaxUint16}
    \cup {MkSlice(Zeros(n)) : n \in {0, TxLength - 1} \cup
                                    ((AddressLength - LenSlack)..(AddressLength + LenSlack))}
    \cup {NilSlice}

InitAdr ==
    /\ buf \in AdrInputs
    /\ signed = {}
    /\ err = NotVerified
    /\ alt = -1
    /\ blk = MkSlice(NewBlock)
    /\ berr = NotVerified
    /\ balt = -1
    /\ par = ParIdle
    /\ base = 0
    /\ mrk = NoMerkle
    /\ bech = NoBech
    /\ lerr = NotVerified

CallVerifyAddress ==
    /\ err = NotVerified
    /\ err' = VerifyAddress(buf)
    /\ UNCHANGED <<buf, signed, alt, blkvars, auxvars>>

NextAdr == CallVerifyAddress

SpecAdr == InitAdr /\ [][NextAdr]_vars

-----------------------------------------------------------------------------
(* Signing and tampering: a caller signs a transaction, has it verified,   *)
(* and alters one byte of an accepted one; or appends it to a block, fills *)
(* in the header, signs the block, has it verified and alters one byte of  *)
(* an accepted block.                                                      *)

MaxTxs == 2

\* a previous-block hash with a single non-zero byte
OnePrevHash == Copy(Zeros(32), 0, 1, <<7>>)

PrevHashes == {OnePrevHash}

AltBytes == {0, 255}

\* transactions the code accepts once signed by the sender's key
SigTxs ==
    {AddrTx(Genesis, genesis, 1, umi, 0, U64(42)),
     AddrTx(Basic, umi, 1, 1057, 0, U64(42)),
     AddrTx(UpdateProfitAddress, umi, 1, 1057, 0, U64(42)),
     StructTx(CreateStructure, umi, 1, StrAaa, 500, 100, <<97>>)}

\* the block is still being built: not signed, verified or altered, and the
\* transaction in buf is not an altered one
BlockOpen ==
    /\ len(blk) >= HeaderLength
    /\ alt = -1
    /\ berr = NotVerified
    /\ balt = -1
    /\ Sub(blk, 103, 167) = Zeros(64)

InitSig ==
    /\ buf \in {MkSlice(t) : t \in SigTxs}
    /\ signed = {}
    /\ err = NotVerified
    /\ alt = -1
    /\ blk = MkSlice(NewBlock)
    /\ berr = NotVerified
    /\ balt = -1
    /\ par = ParIdle
    /\ base = 0
    /\ mrk = NoMerkle
    /\ bech = NoBech
    /\ lerr = NotVerified

AlterTxByte(i, v) ==
    /\ err = NoErr
    /\ alt = -1
    /\ blk = MkSlice(NewBlock)
    /\ At(buf, i) # v
    /\ buf' = MkSlice([buf.data EXCEPT ![i + 1] = v])
    /\ alt' = i
    /\ err' = NotVerified
    /\ UNCHANGED <<signed, blkvars, auxvars>>

CallBlockSetVersion(ver) ==
    /\ BlockOpen
    /\ blk' = MkSlice(Block_SetVersion(blk.data, ver))
    /\ UNCHANGED <<buf, signed, err, alt, berr, balt, auxvars>>

CallSetPreviousBlockHash(h) ==
    /\ BlockOpen
    /\ blk' = MkSlice(Block_SetPreviousBlockHash(blk.data, h))
    /\ UNCHANGED <<buf, signed, err, alt, berr, balt, auxvars>>

\* the caller appends the transaction once VerifyTransaction accepted it
CallAppendTransaction ==
    /\ BlockOpen
    /\ err = NoErr
    /\ Block_TxCount(blk.data) < MaxTxs
    /\ blk' = MkSlice(AppendTransaction(blk.data, buf.data))
    /\ UNCHANGED <<buf, signed, err, alt, berr, balt, auxvars>>

\* mrk, _ := CalculateMerkleRoot(blk); blk.SetMerkleRootHash(mrk)
CallSetMerkleRootHash ==
    /\ BlockOpen
    /\ Block_TxCount(blk.data) >= 1
    /\ CalculateMerkleRoot(blk).err # Panic
    /\ blk' = MkSlice(Block_SetMerkleRootHash(blk.data, CalculateMerkleRoot(blk).hsh))
    /\ UNCHANGED <<buf, signed, err, alt, berr, balt, auxvars>>

CallSignBlock(sec) ==
    /\ BlockOpen
    /\ LET b == Block_Sign(blk.data, sec)
       IN  /\ blk' = MkSlice(b)
           /\ signed' = signed \cup {[pub |-> KeyBytes(sec),
                                      msg |-> SubSeq(b, 1, 103),
                                      sig |-> SubSeq(b, 104, 167)]}
    /\ UNCHANGED <<buf, err, alt, berr, balt, auxvars>>

CallVerifyBlock ==
    /\ berr = NotVerified
    /\ berr' = VerifyBlock(blk)
    /\ UNCHANGED <<buf, signed, err, alt, blk, balt, auxvars>>

AlterBlockByte(i, v) ==
    /\ berr = NoErr
    /\ balt = -1
    /\ At(blk, i) # v
    /\ blk' = MkSlice([blk.data EXCEPT ![i + 1] = v])
    /\ balt' = i
    /\ berr' = NotVerified
    /\ UNCHANGED <<buf, signed, err, alt, auxvars>>

NextSig ==
    \/ \E sec \in SecretKeys, now \in Nonces : CallSignTransaction(sec, now)
    \/ CallVerifyTransaction
    \/ \E i \in 0..84, v \in AltBytes : AlterTxByte(i, v)
    \/ \E ver \in {Genesis, Basic} : CallBlockSetVersion(ver)
    \/ \E h \in PrevHashes : CallSetPreviousBlockHash(h)
    \/ CallAppendTransaction
    \/ CallSetMerkleRootHash
    \/ \E sec \in SecretKeys : CallSignBlock(sec)
    \/ CallVerifyBlock
    \/ \E i \in 0..102, v \in AltBytes : AlterBlockByte(i, v)

SpecSig == InitSig /\ [][NextSig]_vars

-----------------------------------------------------------------------------
(* Block verification: a caller holds a block built with NewBlock, the     *)
(* header setters and AppendTransaction from transactions signed before,   *)
(* or some other buffer; computes its Merkle root, stores it, signs the    *)
(* block and has it verified.                                              *)

\* t signed by sec at time now, the n-th signature made
SignedTx(t, sec, now, n) ==
    setTxSignature(setTxNonce(t, now), SigBytes(sec, n))

SignedRecord(t, sec) ==
    [pub |-> KeyBytes(sec), msg |-> SubSeq(t, 1, 85), sig |-> SubSeq(t, 86, 149)]

\* a Genesis and a Basic transaction that VerifyTransaction accepts
TxG == SignedTx(AddrTx(Genesis, genesis, 1, umi, 0, U64(42)), 1, U64(1), 1)

TxB == SignedTx(AddrTx(Basic, umi, 1, 1057, 0, U64(42)), 1, U64(1), 2)

\* NewTransaction() and NewTransaction().SetVersion(Genesis), not signed
TxU == NewTransaction

TxG0 == SetVersion(NewTransaction, Genesis)

BlkTxs == {TxG, TxB, TxU, TxG0}

RECURSIVE TxSeqs(_)
TxSeqs(n) ==
    IF n = 0 THEN {<<>>}
    ELSE TxSeqs(n - 1) \cup {Append(s, t) : s \in {q \in TxSeqs(n - 1) : Len(q) = n - 1}, t \in BlkTxs}

RECURSIVE AppendAll(_, _)
AppendAll(b, ts) ==
    IF ts = <<>> THEN b ELSE AppendAll(AppendTransaction(b, Head(ts)), Tail(ts))

BuiltBlocks ==
    {AppendAll(Block_SetPreviousBlockHash(Block_SetVersion(NewBlock, ver), h), ts) :
        ver \in {Genesis, Basic},
        h \in PrevHashes \cup {Zeros(32)},
        ts \in TxSeqs(MaxTxs) \ {<<>>}}
    \cup {AppendAll(Block_SetVersion(NewBlock, CreateStructure), <<t>>) : t \in {TxG, TxB}}

\* buffers whose length is not that of a block, or not the one their count
\* field calls for
OddBlocks ==
    {Zeros(n) : n \in {HeaderLength, HeaderLength + TxLength - 1}}
    \cup {PutUint16(Resize(AppendTransaction(NewBlock, TxU), n), 69, c) :
            n \in (HeaderLength + TxLength)..(HeaderLength + TxLength + LenSlack),
            c \in 0..2}

BlkInputs ==
    {MkSlice(b) : b \in BuiltBlocks \cup OddBlocks} \cup {NilSlice}

InitBlk ==
    /\ buf = MkSlice(NewTransaction)
    /\ signed = {SignedRecord(TxG, 1), SignedRecord(TxB, 1)}
    /\ err = NotVerified
    /\ alt = -1
    /\ blk \in BlkInputs
    /\ berr = NotVerified
    /\ balt = -1
    /\ par = ParIdle
    /\ base = 0
    /\ mrk = NoMerkle
    /\ bech = NoBech
    /\ lerr = NotVerified

\* CalculateMerkleRoot and VerifyBlock only read the block: the one is called
\* here on the block the other has just been called on
CallCalculateMerkleRoot ==
    /\ mrk = NoMerkle
    /\ berr # NotVerified
    /\ mrk' = CalculateMerkleRoot(blk)
    /\ UNCHANGED <<buf, signed, err, alt, blkvars, par, base, bech, lerr>>

NextBlk ==
    \/ CallCalculateMerkleRoot
    \/ CallSetMerkleRootHash
    \/ \E sec \in SecretKeys : CallSignBlock(sec)
    \/ CallVerifyBlock

SpecBlk == InitBlk /\ [][NextBlk]_vars

-----------------------------------------------------------------------------
(* SpecPar: allTransactionsAreValid step by step.  The channel c is filled *)
(* and closed, runParallel starts runtime.NumCPU() goroutines, each runs   *)
(* fn and writes the shared err, without a lock, when fn returned an       *)
(* error; the caller reads err after wg.Wait().  par.ch holds the indices  *)
(* of the transactions in c, par.sent the index of the fill loop,          *)
(* par.closed whether c is closed, par.er the goroutines' local er, and    *)
(* par.err the two words of the interface value err, written one by one.   *)
(* A send on a full channel and a receive on an empty open channel block:  *)
(* the step is not enabled.                                                *)

MaxCPU == 2

ParTxs == {TxB, TxU}

\* every sequence over ParTxs, and one of two different failing transactions
ParBlocks ==
    {AppendAll(NewBlock, ts) :
        ts \in {s \in TxSeqs(MaxTxs) : \A k \in 1..Len(s) : s[k] \in ParTxs}}
    \cup {AppendAll(NewBlock, <<TxU, TxG0>>)}

\* an unbuffered channel
chanCap_Zero(n) == 0

\* c := make(chan []byte, n)
chanCap(n) == n

\* a word of the interface value holding er
errWord(er) == IF er = NoErr THEN 0 ELSE 1

\* the interface value the two words make up
errValue(w) ==
    IF w = <<0, 0>> THEN NoErr
    ELSE IF w = <<1, 1>> THEN ErrInvalidTx
    ELSE "torn"

\* the goroutine assigning err whatever fn returned
goWrites_Always(er) == TRUE

\* if er := fn(); er != nil { err = er }
goWrites(er) == er # NoErr

InitPar ==
    /\ buf = MkSlice(NewTransaction)
    /\ signed = {SignedRecord(TxB, 1)}
    /\ err = NotVerified
    /\ alt = -1
    /\ blk \in {MkSlice(b) : b \in ParBlocks}
    /\ berr = NotVerified
    /\ balt = -1
    /\ \E cpu \in 1..MaxCPU :
          par = [cpu |-> cpu, i |-> 0, pc |-> <<>>, er |-> <<>>,
                 ch |-> <<>>, sent |-> 0, closed |-> FALSE,
                 err |-> <<0, 0>>, wg |-> 0, ret |-> "none"]
    /\ base = 0
    /\ mrk = NoMerkle
    /\ bech = NoBech
    /\ lerr = NotVerified

ParUnchanged == UNCHANGED <<buf, signed, err, alt, blkvars, base, mrk, bech, lerr>>

\* c <- blk.Transaction(i); i++
ParSend ==
    /\ par.cpu > 0
    /\ ~par.closed
    /\ par.sent < Block_TxCount(blk.data)
    /\ Len(par.ch) < chanCap(Block_TxCount(blk.data))
    /\ par' = [par EXCEPT !.ch = Append(@, par.sent), !.sent = @ + 1]
    /\ ParUnchanged

\* close(c)
ParClose ==
    /\ par.cpu > 0
    /\ ~par.closed
    /\ par.sent = Block_TxCount(blk.data)
    /\ par' = [par EXCEPT !.closed = TRUE]
    /\ ParUnchanged

\* wg.Add(1); go func() {...}()
GoSpawn ==
    /\ par.cpu > 0
    /\ par.closed
    /\ par.i < par.cpu
    /\ par' = [par EXCEPT !.i = @ + 1, !.wg = @ + 1,
                          !.pc = Append(@, "fn"), !.er = Append(@, "unset")]
    /\ ParUnchanged

\* one round of "for tx := range c": a receive takes the next transaction,
\* or ends the loop when the channel is empty and closed
GoReceive(w) ==
    /\ w \in 1..Len(par.pc)
    /\ par.pc[w] = "fn"
    /\ par.ch # <<>> \/ par.closed
    /\ IF par.ch = <<>>
       THEN par' = [par EXCEPT !.er[w] = NoErr,
                               !.pc[w] = IF goWrites(NoErr) THEN "word0" ELSE "done"]
       ELSE IF VerifyTransaction(MkSlice(Block_Transaction(blk.data, Head(par.ch)))) # NoErr
       THEN par' = [par EXCEPT !.ch = Tail(@), !.er[w] = ErrInvalidTx,
                               !.pc[w] = IF goWrites(ErrInvalidTx) THEN "word0" ELSE "done"]
       ELSE par' = [par EXCEPT !.ch = Tail(@)]
    /\ ParUnchanged

\* err = er, first word
GoWriteWord0(w) ==
    /\ w \in 1..Len(par.pc)
    /\ par.pc[w] = "word0"
    /\ par' = [par EXCEPT !.err[1] = errWord(par.er[w]), !.pc[w] = "word1"]
    /\ ParUnchanged

\* err = er, second word
GoWriteWord1(w) ==
    /\ w \in 1..Len(par.pc)
    /\ par.pc[w] = "word1"
    /\ par' = [par EXCEPT !.err[2] = errWord(par.er[w]), !.pc[w] = "done"]
    /\ ParUnchanged

\* wg.Done()
GoDone(w) ==
    /\ w \in 1..Len(par.pc)
    /\ par.pc[w] = "done"
    /\ par' = [par EXCEPT !.wg = @ - 1, !.pc[w] = "exit"]
    /\ ParUnchanged

\* wg.Wait(); return err
ParReturn ==
    /\ par.cpu > 0
    /\ par.i = par.cpu
    /\ par.wg = 0
    /\ par.ret = "none"
    /\ par' = [par EXCEPT !.ret = errValue(par.err)]
    /\ ParUnchanged

NextPar ==
    \/ ParSend
    \/ ParClose
    \/ GoSpawn
    \/ \E w \in 1..MaxCPU + 1 : GoReceive(w)
    \/ \E w \in 1..MaxCPU + 1 : GoWriteWord0(w)
    \/ \E w \in 1..MaxCPU + 1 : GoWriteWord1(w)
    \/ \E w \in 1..MaxCPU + 1 : GoDone(w)
    \/ ParReturn

SpecPar == InitPar /\ [][NextPar]_vars

\* The Go scheduler runs every goroutine that can take a step: the caller
\* and each started goroutine are weakly fair.
ParMain == ParSend \/ ParClose \/ GoSpawn \/ ParReturn

GoStep(w) == GoReceive(w) \/ GoWriteWord0(w) \/ GoWriteWord1(w) \/ GoDone(w)

FairSpecPar ==
    /\ InitPar /\ [][NextPar]_vars
    /\ WF_vars(ParMain)
    /\ \A w \in 1..MaxCPU + 1 : WF_vars(GoStep(w))

-----------------------------------------------------------------------------
(* SpecMrk: CalculateMerkleRoot statement by statement.  mrk holds the     *)
(* count c, the hash array h, the loop variables i, n, m and cnt (the      *)
(* argument of the coming call of next), the indices wr of h written in    *)
(* the current level, and whether an inner iteration has read one of them. *)

MaxLeaves == 5

\* trx[j] = uint8(i) for every j, as TestCalculateMerkleRoot fills them
LeafTx(i) == Fill(TxLength, i)

MrkBlocks ==
    {AppendAll(NewBlock, [k \in 1..n |-> LeafTx(k - 1)]) : n \in 0..MaxLeaves}
        \cup {AppendAll(NewBlock, <<LeafTx(s[1]), LeafTx(s[2]), LeafTx(s[3])>>) :
                s \in [1..3 -> 0..2]}
        \cup {PutUint16(AppendAll(NewBlock, <<LeafTx(0), LeafTx(1)>>), 69, c) : c \in {1, 3}}
        \cup {PutUint16(AppendAll(NewBlock, <<LeafTx(0), LeafTx(0)>>), 69, 3)}

InitMrk ==
    /\ buf = MkSlice(NewTransaction)
    /\ signed = {}
    /\ err = NotVerified
    /\ alt = -1
    /\ blk \in {MkSlice(b) : b \in MrkBlocks}
    /\ berr = NotVerified
    /\ balt = -1
    /\ par = ParIdle
    /\ base = 0
    /\ mrk = NoMerkle
    /\ bech = NoBech
    /\ lerr = NotVerified

MrkUnchanged == UNCHANGED <<buf, signed, err, alt, blk, berr, balt, par, base, bech, lerr>>

MrkPanic == [mrk EXCEPT !.pc = "ret", !.hsh = <<>>, !.err = Panic]

\* c := b.TxCount(); h := make([][32]byte, c); u := map[[32]byte]struct{}{}
MerkleEnter ==
    /\ mrk = NoMerkle
    /\ mrk' = [pc |-> "step1", c |-> Block_TxCount(blk.data),
               h |-> [k \in 1..Block_TxCount(blk.data) |-> Zeros(32)],
               i |-> 0, n |-> 0, m |-> 0, cnt |-> 0, wr |-> {}, stale |-> FALSE,
               hsh |-> <<>>, err |-> "none"]
    /\ MrkUnchanged

\* step 1: one round of "for i := uint16(0); i < c; i++"
MerkleStep1 ==
    /\ mrk # NoMerkle
    /\ mrk.pc = "step1"
    /\ IF mrk.i >= mrk.c
       THEN mrk' = [mrk EXCEPT !.pc = "level", !.cnt = mrk.c]
       ELSE IF len(blk) < HeaderLength + (mrk.i + 1) * TxLength
       THEN mrk' = MrkPanic
       ELSE LET hi == sha256Sum(Block_Transaction(blk.data, mrk.i))
            IN  IF \E k \in 1..mrk.i : mrk.h[k] = hi
                THEN mrk' = [mrk EXCEPT !.pc = "ret", !.err = ErrNonUniqueTx]
                ELSE mrk' = [mrk EXCEPT !.h[mrk.i + 1] = hi, !.i = @ + 1]
    /\ MrkUnchanged

\* step 2, the outer loop's header: n, m = next(...); n > 0
MerkleLevel ==
    /\ mrk # NoMerkle
    /\ mrk.pc = "level"
    /\ LET nm == next(mrk.cnt)
       IN  mrk' = [mrk EXCEPT !.n = nm[1], !.m = nm[2], !.i = 0, !.wr = {},
                              !.pc = IF nm[1] > 0 THEN "inner" ELSE "copy"]
    /\ MrkUnchanged

\* step 2: one round of "for i := 0; i < n; i++"
MerkleInner ==
    /\ mrk # NoMerkle
    /\ mrk.pc = "inner"
    /\ IF mrk.i >= mrk.n
       THEN mrk' = [mrk EXCEPT !.pc = "level", !.cnt = mrk.n]
       ELSE LET k1 == mrk.i * 2
                k2 == min(k1 + 1, mrk.m)
            IN  IF k1 >= Len(mrk.h) \/ k2 >= Len(mrk.h) \/ k2 < 0
                THEN mrk' = MrkPanic
                ELSE mrk' = [mrk EXCEPT
                        !.h[mrk.i + 1] = sha256Sum(mrk.h[k1 + 1] \o mrk.h[k2 + 1]),
                        !.stale = @ \/ k1 \in mrk.wr \/ k2 \in mrk.wr,
                        !.wr = @ \cup {mrk.i},
                        !.i = @ + 1]
    /\ MrkUnchanged

\* hsh = make([]byte, 32); copy(hsh, h[0][:]); return hsh, err
MerkleCopy ==
    /\ mrk # NoMerkle
    /\ mrk.pc = "copy"
    /\ IF Len(mrk.h) = 0
       THEN mrk' = MrkPanic
       ELSE mrk' = [mrk EXCEPT !.pc = "ret", !.hsh = mrk.h[1], !.err = NoErr]
    /\ MrkUnchanged

NextMrk == MerkleEnter \/ MerkleStep1 \/ MerkleLevel \/ MerkleInner \/ MerkleCopy

SpecMrk == InitMrk /\ [][NextMrk]_vars

-----------------------------------------------------------------------------
(* SpecApp: AppendTransaction called again and again on a block that       *)
(* started as NewBlock.  blk holds the header and the transactions of the  *)
(* calls made here; base is the number of transactions appended before     *)
(* them, which lie between the header and those of blk and which           *)
(* AppendTransaction neither reads nor writes.                             *)

MaxAppends == 4

AppTxs == {TxU, TxB, LeafTx(7)}

\* the length of the whole block
blockLen == len(blk) + TxLength * base

InitApp ==
    /\ buf = MkSlice(NewTransaction)
    /\ signed = {}
    /\ err = NotVerified
    /\ alt = -1
    /\ base \in {0, MaxUint16 - 1}
    /\ blk = MkSlice(PutUint16(NewBlock, 69, base))
    /\ berr = NotVerified
    /\ balt = -1
    /\ par = ParIdle
    /\ mrk = NoMerkle
    /\ bech = NoBech
    /\ lerr = NotVerified

CallAppend(t) ==
    /\ len(blk) < HeaderLength + MaxAppends * TxLength
    /\ blk' = MkSlice(AppendTransaction(blk.data, t))
    /\ UNCHANGED <<buf, signed, err, alt, berr, balt, par, base, mrk, bech, lerr>>

NextApp == \E t \in AppTxs : CallAppend(t)

SpecApp == InitApp /\ [][NextApp]_vars

-----------------------------------------------------------------------------
(* SpecPfx: SetPrefix with every three-letter prefix and "genesis" on a    *)
(* new address and on a new transaction; bech.str holds the text passed.   *)
(* SpecStp: VerifyTransaction on structure transactions with all kinds of  *)
(* prefix bytes.                                                           *)

Letters == 97..122

PrefixTexts == {<<a, b, c>> : a, b, c \in Letters} \cup {StrGenesis}

\* the 5-bit fields 0, a, u, z, 27 and 31 in each place, with and without
\* the top bit of the 16, and "umi" with and without it
PfxVersions ==
    {hi * 32768 + c0 * 1024 + c1 * 32 + c2 :
        hi \in {0, 1}, c0, c1, c2 \in {0, 1, 21, 26, 27, 31}}
        \cup {umi, umi + 32768}

PfxTxs ==
    {PutUint16(StructTx(ver, umi, 1, StrAaa, 100, 100, <<>>), 35, v) :
        ver \in {CreateStructure, UpdateStructure}, v \in PfxVersions}

InitPfx ==
    /\ buf \in {MkSlice(NewAddress), MkSlice(NewTransaction)}
    /\ signed = {}
    /\ err = NotVerified
    /\ alt = -1
    /\ blk = MkSlice(NewBlock)
    /\ berr = NotVerified
    /\ balt = -1
    /\ par = ParIdle
    /\ base = 0
    /\ mrk = NoMerkle
    /\ bech = NoBech
    /\ lerr = NotVerified

\* a.SetPrefix(p) on a new address, t.SetPrefix(p) on a new transaction
CallSetPrefix(p) ==
    /\ bech = NoBech
    /\ buf' = MkSlice(IF len(buf) = AddressLength THEN Address_SetPrefix(buf.data, p)
                      ELSE SetPrefix(buf.data, p))
    /\ bech' = [NoBech EXCEPT !.src = "prefix", !.str = p]
    /\ UNCHANGED <<signed, err, alt, blkvars, par, base, mrk, lerr>>

NextPfx == bech = NoBech /\ \E p \in PrefixTexts : CallSetPrefix(p)

SpecPfx == InitPfx /\ [][NextPfx]_vars

InitStp ==
    /\ buf \in {MkSlice(t) : t \in PfxTxs}
    /\ signed = {}
    /\ err = NotVerified
    /\ alt = -1
    /\ blk = MkSlice(NewBlock)
    /\ berr = NotVerified
    /\ balt = -1
    /\ par = ParIdle
    /\ base = 0
    /\ mrk = NoMerkle
    /\ bech = NoBech
    /\ lerr = NotVerified

NextStp ==
    \/ \E sec \in SecretKeys, now \in Nonces : CallSignTransaction(sec, now)
    \/ CallVerifyTransaction

SpecStp == InitStp /\ [][NextStp]_vars

-----------------------------------------------------------------------------
(* Bech32: Address.Bech32 on valid addresses and NewAddressFromBech32 on   *)
(* the strings it produced and on strings built by hand.                   *)

\* "genesis", "umi", "aaa", "zzz", "azm", "zaa"
B32Versions == {genesis, umi, 1057, 27482, 1869, 26657}

B32Keys ==
    {Zeros(32), Fill(32, 255), KeyBytes(1),
     [i \in 1..32 |-> (i * 37 + 11) % 256],
     [i \in 1..32 |-> (255 - i * 7) % 256],
     [i \in 1..32 |-> IF i = 32 THEN 1 ELSE 0],
     [i \in 1..32 |-> IF i = 1 THEN 128 ELSE 0]}

B32Addresses ==
    {Address_SetPublicKey(Address_SetVersion(NewAddress, v), k) :
        v \in B32Versions, k \in B32Keys}

\* prefix, separator, data characters and their checksum
Craft(pfx, data) == pfx \o <<49>> \o data \o bech32CreateChecksum(pfx, data)

\* s with its last byte replaced by c
WithLast(s, c) == [s EXCEPT ![Len(s)] = c]

StrUmiZero == Craft(StrUmi, Fill(52, 113))

CraftedStrings ==
    {\* well-formed, also in upper case
     StrUmiZero,
     Craft(StrGenesis, Fill(52, 108)),
     [i \in 1..62 |-> IF StrUmiZero[i] \in 97..122 THEN StrUmiZero[i] - 32 ELSE StrUmiZero[i]],
     \* wrong length, no separator, bad data character, residual bits, bad checksum
     Craft(StrUmi, Fill(51, 113)),
     Craft(StrUmi, Fill(53, 113)),
     [StrUmiZero EXCEPT ![4] = 108],
     [StrUmiZero EXCEPT ![5] = 105],
     Craft(StrUmi, WithLast(Fill(52, 113), 108)),
     WithLast(StrUmiZero, IF StrUmiZero[62] = 113 THEN 112 ELSE 113),
     [StrUmiZero EXCEPT ![60] = 98],
     \* separator not at len - 59
     Craft(<<>>, Fill(55, 113)),
     Craft(<<97, 98>>, WithLast(Fill(53, 108), 113)),
     Craft(<<97, 98, 99, 100>>, Fill(51, 113)),
     Craft(<<97, 98, 99, 100, 101>>, WithLast(Fill(50, 108), 113)),
     Craft(StrUmi, Fill(56, 108)),
     Craft(<<103, 101, 110, 101, 122, 105, 122>>, Fill(52, 113)),
     \* characters outside a..z in a 3-character prefix
     Craft(<<43, 43, 43>>, Fill(52, 113)),
     Craft(<<97, 123, 98>>, Fill(52, 113)),
     \* last separator inside the checksum
     WithLast(StrUmiZero, 49),
     [StrUmiZero EXCEPT ![58] = 49]}

InitB32 ==
    /\ \/ buf \in {MkSlice(a) : a \in B32Addresses} /\ bech = NoBech
       \/ /\ buf = NilSlice
          /\ bech \in {[NoBech EXCEPT !.src = "crafted", !.str = s] : s \in CraftedStrings}
    /\ signed = {}
    /\ err = NotVerified
    /\ alt = -1
    /\ blk = MkSlice(NewBlock)
    /\ berr = NotVerified
    /\ balt = -1
    /\ par = ParIdle
    /\ base = 0
    /\ mrk = NoMerkle
    /\ lerr = NotVerified

\* s := a.Bech32()
CallBech32 ==
    /\ bech = NoBech
    /\ bech' = [NoBech EXCEPT !.src = "encoded", !.str = Address_Bech32(buf.data)]
    /\ UNCHANGED <<buf, signed, err, alt, blkvars, par, base, mrk, lerr>>

\* adr, err := NewAddressFromBech32(s)
CallNewAddressFromBech32 ==
    /\ bech.src \in {"encoded", "crafted"}
    /\ bech.err = "none"
    /\ LET r == NewAddressFromBech32(bech.str)
       IN  bech' = [bech EXCEPT !.adr = r.adr, !.err = r.err]
    /\ UNCHANGED <<buf, signed, err, alt, blkvars, par, base, mrk, lerr>>

NextB32 ==
    \/ CallBech32
    \/ CallNewAddressFromBech32

SpecB32 == InitB32 /\ [][NextB32]_vars

-----------------------------------------------------------------------------
(* Field setters: one setter at a time on a transaction buffer, at most    *)
(* MaxSets calls.  bech.src names the setter called last and bech.str the  *)
(* setters called so far.                                                  *)

MaxSets == 2

Fields == {"version", "sender", "recipient", "value", "prefix", "profit", "fee", "name"}

FieldValues(f) ==
    CASE f = "version"   -> {Basic, CreateStructure}
      [] f = "sender"    -> {Adr(umi, 1), Adr(1057, 2)}
      [] f = "recipient" -> {Adr(umi, 2), Adr(27482, 255)}
      [] f = "value"     -> {U64(42), MaxSafeBytes}
      [] f = "prefix"    -> {StrAaa, StrGenesis}
      [] f = "profit"    -> {100, 500}
      [] f = "fee"       -> {1, 2000}
      [] f = "name"      -> {<<>>, Fill(28, 97), Fill(35, 98)}

\* the setter of field f
Set(f, t, v) ==
    CASE f = "version"   -> SetVersion(t, v)
      [] f = "sender"    -> SetSender(t, v)
      [] f = "recipient" -> SetRecipient(t, v)
      [] f = "value"     -> SetValue(t, v)
      [] f = "prefix"    -> SetPrefix(t, v)
      [] f = "profit"    -> SetProfitPercent(t, v)
      [] f = "fee"       -> SetFeePercent(t, v)
      [] f = "name"      -> SetName(t, v)

\* the getter of field f
Get(f, t) ==
    CASE f = "version"   -> Version(t)
      [] f = "sender"    -> Sender(t)
      [] f = "recipient" -> Recipient(t)
      [] f = "value"     -> Value(t)
      [] f = "prefix"    -> Prefix(t)
      [] f = "profit"    -> ProfitPercent(t)
      [] f = "fee"       -> FeePercent(t)
      [] f = "name"      -> Name(t)

FldTxs ==
    {NewTransaction,
     AddrTx(Basic, umi, 1, 1057, 2, U64(42)),
     StructTx(CreateStructure, umi, 1, StrAaa, 100, 2000, Fill(35, 97))}

InitFld ==
    /\ buf \in {MkSlice(t) : t \in FldTxs}
    /\ signed = {}
    /\ err = NotVerified
    /\ alt = -1
    /\ blk = MkSlice(NewBlock)
    /\ berr = NotVerified
    /\ balt = -1
    /\ par = ParIdle
    /\ base = 0
    /\ mrk = NoMerkle
    /\ bech = NoBech
    /\ lerr = NotVerified

\* t.SetVersion(v), t.SetSender(v), ... t.SetName(v)
CallSet(f, v) ==
    /\ Len(bech.str) < MaxSets
    /\ buf' = MkSlice(Set(f, buf.data, v))
    /\ bech' = [bech EXCEPT !.src = f, !.str = Append(bech.str, f)]
    /\ UNCHANGED <<signed, err, alt, blkvars, par, base, mrk, lerr>>

NextFld == \E f \in Fields : \E v \in FieldValues(f) : CallSet(f, v)

SpecFld == InitFld /\ [][NextFld]_vars

-----------------------------------------------------------------------------
(* The verifier built from a list of check functions, on a 150-byte        *)
(* transaction t: the first error in list order is the result.             *)

prefixAlphabet == <<32>> \o [i \in 1..26 |-> 96 + i]

verifyTxVersion(t) ==
    IF Version(t) > DeleteTransitAddress THEN ErrInvalidVersion ELSE NoErr

verifyTxValue(t) ==
    IF GreaterBE(Value(t), MaxSafeBytes) THEN ErrInvalidValue ELSE NoErr

verifyTxBasicSenderAndRecipient(t) ==
    IF Version(t) # Basic THEN NoErr
    ELSE IF Sender(t) = Recipient(t) THEN ErrInvalidRecipient
    ELSE IF Address_Version(Sender(t)) = genesis THEN ErrInvalidSender
    ELSE IF Address_Version(Recipient(t)) = genesis THEN ErrInvalidRecipient
    ELSE NoErr

verifyTxGenesisSenderAndRecipient(t) ==
    IF Version(t) # Genesis THEN NoErr
    ELSE IF Address_Version(Sender(t)) # genesis THEN ErrInvalidSender
    ELSE IF Address_Version(Recipient(t)) # umi THEN ErrInvalidRecipient
    ELSE NoErr

verifyTxStructureSender(t) ==
    IF Version(t) < CreateStructure THEN NoErr
    ELSE IF Address_Version(Sender(t)) # umi THEN ErrInvalidSender
    ELSE NoErr

verifyTxStructurePrefix(t) ==
    IF Version(t) < CreateStructure THEN NoErr
    ELSE IF Prefix(t) \in {StrUmi, StrGenesis} THEN ErrInvalidPrefix
    ELSE IF \E i \in 1..Len(Prefix(t)) : IndexByte(prefixAlphabet, Prefix(t)[i]) = -1
         THEN ErrInvalidPrefix
    ELSE NoErr

verifyTxStructureName(t) ==
    IF Version(t) # CreateStructure /\ Version(t) # UpdateStructure THEN NoErr
    ELSE IF t[42] > 35 THEN ErrInvalidName
    ELSE IF ~utf8Valid(SubSeq(t, 43, 42 + t[42])) THEN ErrInvalidName
    ELSE NoErr

verifyTxStructureProfitPercent(t) ==
    IF Version(t) # CreateStructure /\ Version(t) # UpdateStructure THEN NoErr
    ELSE IF ProfitPercent(t) < 100 \/ ProfitPercent(t) > 500 THEN ErrInvalidProfitPercent
    ELSE NoErr

verifyTxStructureFeePercent(t) ==
    IF Version(t) # CreateStructure /\ Version(t) # UpdateStructure THEN NoErr
    ELSE IF FeePercent(t) > 2000 THEN ErrInvalidFeePercent
    ELSE NoErr

verifyTxSignature(t) ==
    IF ~ed25519Verify(SubSeq(t, 4, 35), SubSeq(t, 1, 85), SubSeq(t, 86, 149))
    THEN ErrInvalidSignature ELSE NoErr

VerifyTransactionList(t) ==
    runAsserts(<<verifyTxVersion(t),
                 verifyTxValue(t),
                 verifyTxBasicSenderAndRecipient(t),
                 verifyTxGenesisSenderAndRecipient(t),
                 verifyTxStructureSender(t),
                 verifyTxStructurePrefix(t),
                 verifyTxStructureName(t),
                 verifyTxStructureProfitPercent(t),
                 verifyTxStructureFeePercent(t),
                 verifyTxSignature(t)>>)

-----------------------------------------------------------------------------
(* The list verifier on structure transactions whose name has 0..35 bytes. *)

\* names of 0, 1, 27, 28 and 35 bytes, the 28-byte ones ending in 'a' and in NUL
LstNames ==
    {<<>>, <<97>>, Fill(27, 97), Fill(28, 97), Fill(27, 97) \o <<0>>, Fill(35, 97),
     Fill(26, 97) \o <<195, 169>>}

LstTxs ==
    {StructTx(ver, umi, 1, pfx, prf, fee, name) :
        ver \in {CreateStructure, UpdateStructure}, pfx \in {StrAaa, <<122, 122, 122>>},
        prf \in {100, 500}, fee \in {0, 2000}, name \in LstNames}
    \cup {StructTx(CreateStructure, sv, 1, pfx, 100, 0, name) :
        sv \in {umi, genesis}, pfx \in {StrAaa, StrUmi}, name \in {Fill(36, 97), <<255>>}}
    \cup {AddrTx(Basic, umi, 1, 1057, 1, val) : val \in {U64(42), OverSafeBytes}}

InitLst ==
    /\ buf \in {MkSlice(t) : t \in LstTxs}
    /\ signed = {}
    /\ err = NotVerified
    /\ alt = -1
    /\ blk = MkSlice(NewBlock)
    /\ berr = NotVerified
    /\ balt = -1
    /\ par = ParIdle
    /\ base = 0
    /\ mrk = NoMerkle
    /\ bech = NoBech
    /\ lerr = NotVerified

\* err := VerifyTransaction(t) of the list verifier
CallVerifyTransactionList ==
    /\ lerr = NotVerified
    /\ lerr' = VerifyTransactionList(buf.data)
    /\ UNCHANGED <<buf, signed, err, alt, blkvars, par, base, mrk, bech>>

NextLst ==
    \/ \E sec \in SecretKeys, now \in Nonces : CallSignTransaction(sec, now)
    \/ CallVerifyTransactionList

SpecLst == InitLst /\ [][NextLst]_vars

-----------------------------------------------------------------------------
(* Two blocks side by side: CalculateMerkleRoot of blk and of buf.  The    *)
(* first holds the leaf transactions 0..n-1 in order, the second any       *)
(* sequence of pairwise distinct ones, or one repeating its last.          *)

MaxPair == 3

\* sequences of 1..MaxPair pairwise distinct leaf transactions
DistinctSeqs ==
    UNION {{[k \in 1..n |-> LeafTx(f[k])] :
              f \in {g \in [1..n -> 0..(MaxPair - 1)] :
                       \A i, j \in 1..n : i # j => g[i] # g[j]}} : n \in 1..MaxPair}

\* the leaf transactions 0..n-1 in order
OrderedSeqs == {[k \in 1..n |-> LeafTx(k - 1)] : n \in 1..MaxPair}

\* the distinct ones, and each with its last transaction once more
PairSeqs == DistinctSeqs \cup {Append(q, q[Len(q)]) : q \in DistinctSeqs}

InitTwo ==
    /\ blk \in {MkSlice(AppendAll(NewBlock, q)) : q \in OrderedSeqs}
    /\ buf \in {MkSlice(AppendAll(NewBlock, q)) : q \in PairSeqs}
    /\ signed = {}
    /\ err = NotVerified
    /\ alt = -1
    /\ berr = NotVerified
    /\ balt = -1
    /\ par = ParIdle
    /\ base = 0
    /\ mrk = NoMerkle
    /\ bech = NoBech
    /\ lerr = NotVerified

\* h1, e1 := CalculateMerkleRoot(blk); h2, e2 := CalculateMerkleRoot(buf)
CallCalculateBoth ==
    /\ mrk = NoMerkle
    /\ LET r1 == CalculateMerkleRoot(blk)
           r2 == CalculateMerkleRoot(buf)
       IN  mrk' = [pc |-> "pair", hsh |-> r1.hsh, err |-> r1.err,
                   hsh2 |-> r2.hsh, err2 |-> r2.err]
    /\ UNCHANGED <<buf, signed, err, alt, blkvars, par, base, bech, lerr>>

NextTwo == CallCalculateBoth

SpecTwo == InitTwo /\ [][NextTwo]_vars

-----------------------------------------------------------------------------
(* What the specification says of a buffer, read off the text alone.       *)

Verified == err # NotVerified

IsTx == ~buf.isnil /\ len(buf) = TxLength

\* section 4.2.4: 0, or three 5-bit fields each in 1..26
SpecVersionValid(v) ==
    \/ v = 0
    \/ \A i \in 0..2 : ((v \div (32 ^ i)) % 32) \in 1..26

SenderVer == Address_Version(Sender(buf.data))

RecipientVer == Address_Version(Recipient(buf.data))

\* section 4.2.1 (3): value <= 2^53 - 1
ValueExceeds == GreaterBE(Value(buf.data), MaxSafeBytes)

\* section 4.2.2, last predicate of the structure group
SpecNameOk ==
    /\ buf.data[42] <= 35
    /\ utf8Valid(SubSeq(buf.data, 43, 42 + buf.data[42]))

\* the result of the version-gated groups, as the code evaluates them
GroupResult ==
    runAsserts(<<
        ifVersionIsGenesis(buf, <<
            senderPrefixIs(genesis, buf),
            recipientPrefixIs(umi, buf)>>),
        ifVersionIsBasic(buf, <<
            senderPrefixIsValid(buf),
            recipientPrefixIsValid(buf),
            senderRecipientNotEqual(buf),
            senderPrefixNot(genesis, buf),
            recipientPrefixNot(<<genesis>>, buf)>>),
        ifVersionIsCreateOrUpdateStruct(buf, <<
            senderPrefixIs(umi, buf),
            structPrefixNot(<<genesis, umi>>, buf),
            structPrefixIsValid(buf),
            profitPercentBetween(0, 500, buf),
            feePercentBetween(100, 2000, buf),
            nameIsValidUtf8(buf)>>),
        ifVersionIsUpdateAddress(buf, <<
            senderPrefixIs(umi, buf),
            recipientPrefixNot(<<genesis, umi>>, buf),
            recipientPrefixIsValid(buf)>>)>>)

SignatureOk ==
    ed25519Verify(Sub(buf, 3, 35), Sub(buf, 0, 85), Sub(buf, 85, 149))

PassOrSignature == err \in {NoErr, ErrInvalidSignature}

-----------------------------------------------------------------------------
(* Claims. *)

\* C1: VerifyTransaction returns the error of the first failing predicate in
\* the order length, version range, value upper bound, version-gated group,
\* signature; nil iff all of them pass.
C1_FirstFailingInOrder ==
    Verified =>
        err = IF ~IsTx THEN ErrInvalidLength
              ELSE IF Version(buf.data) > 7 THEN ErrInvalidVersion
              ELSE IF ValueExceeds THEN ErrInvalidValue
              ELSE IF GroupResult # NoErr THEN GroupResult
              ELSE IF ~SignatureOk THEN ErrInvalidSignature
              ELSE NoErr

\* C2: every buffer whose length is not exactly 150 bytes (nil included) is
\* answered with InvalidLength, and never with a panic from reading a field.
C2_LengthFirst ==
    (Verified /\ ~IsTx) => err = ErrInvalidLength

C2_Witness ==
    /\ err = ErrInvalidLength
    /\ ~buf.isnil
    /\ len(buf) = TxLength - 1

\* C3: for versions 0..7 a 150-byte buffer whose value exceeds 2^53 - 1 is
\* answered with InvalidValue, and InvalidValue has no other cause.
C3_ValueBound ==
    (Verified /\ IsTx) =>
        /\ (Version(buf.data) <= 7 /\ ValueExceeds) => err = ErrInvalidValue
        /\ err = ErrInvalidValue => ValueExceeds

StructPreconditions ==
    /\ Verified
    /\ IsTx
    /\ Version(buf.data) \in {CreateStructure, UpdateStructure}
    /\ ~ValueExceeds
    /\ SenderVer = umi
    /\ RecipientVer \notin {0, umi}
    /\ SpecVersionValid(RecipientVer)

\* C4: structure transaction with sender and prefix passing: the result is
\* InvalidProfitPercent exactly when the profit percent is outside [100, 500].
C4_ProfitRange ==
    StructPreconditions =>
        (err = ErrInvalidProfitPercent <=> ProfitPercent(buf.data) \notin 100..500)

\* C5: structure transaction with sender, prefix and profit percent passing:
\* the result is InvalidFeePercent exactly when the fee percent exceeds 2000.
C5_FeeRange ==
    (StructPreconditions /\ ProfitPercent(buf.data) \in 100..500) =>
        (err = ErrInvalidFeePercent <=> FeePercent(buf.data) > 2000)

\* C6: the address-version predicate accepts v iff v = 0 or each of its three
\* 5-bit fields lies in 1..26.
C6_VersionValidity ==
    (Verified /\ ~buf.isnil /\ len(buf) = AddressLength) =>
        (err = NoErr <=> SpecVersionValid(Address_Version(buf.data)))

\* C7: Basic transaction past length, version and value: InvalidSender for an
\* invalid sender version, else InvalidRecipient for an invalid recipient
\* version, else InvalidRecipient for sender = recipient, else InvalidSender
\* for sender version 0, else InvalidRecipient for recipient version 0, and
\* only then the signature.
C7_BasicOrder ==
    (Verified /\ IsTx /\ Version(buf.data) = Basic /\ ~ValueExceeds) =>
        IF ~SpecVersionValid(SenderVer) THEN err = ErrInvalidSender
        ELSE IF ~SpecVersionValid(RecipientVer) THEN err = ErrInvalidRecipient
        ELSE IF Sender(buf.data) = Recipient(buf.data) THEN err = ErrInvalidRecipient
        ELSE IF SenderVer = 0 THEN err = ErrInvalidSender
        ELSE IF RecipientVer = 0 THEN err = ErrInvalidRecipient
        ELSE PassOrSignature

\* C8: structure transaction past the unconditional checks: InvalidSender,
\* else InvalidPrefix (prefix 0, 21929 or not valid), else InvalidProfitPercent,
\* else InvalidFeePercent, and InvalidName only last; never InvalidRecipient.
C8_StructOrder ==
    (/\ Verified
     /\ IsTx
     /\ Version(buf.data) \in {CreateStructure, UpdateStructure}
     /\ ~ValueExceeds) =>
        IF SenderVer # umi THEN err = ErrInvalidSender
        ELSE IF RecipientVer \in {0, umi} \/ ~SpecVersionValid(RecipientVer)
             THEN err = ErrInvalidPrefix
        ELSE IF ProfitPercent(buf.data) \notin 100..500 THEN err = ErrInvalidProfitPercent
        ELSE IF FeePercent(buf.data) > 2000 THEN err = ErrInvalidFeePercent
        ELSE IF ~SpecNameOk THEN err = ErrInvalidName
        ELSE PassOrSignature

\* C9: address-operation versions 4..7: InvalidSender unless the sender
\* version is 21929, else InvalidRecipient for a recipient version that is 0,
\* 21929 or not valid; never one of the structure errors.
C9_AddressOps ==
    (/\ Verified
     /\ IsTx
     /\ Version(buf.data) \in UpdateProfitAddress..DeleteTransitAddress
     /\ ~ValueExceeds) =>
        /\ err \notin {ErrInvalidPrefix, ErrInvalidProfitPercent,
                       ErrInvalidFeePercent, ErrInvalidName}
        /\ IF SenderVer # umi THEN err = ErrInvalidSender
           ELSE IF RecipientVer \in {0, umi} \/ ~SpecVersionValid(RecipientVer)
                THEN err = ErrInvalidRecipient
           ELSE PassOrSignature

\* the predicates VerifyTransaction runs ahead of the signature, on buf
TxBeforeSignature ==
    runAsserts(<<lengthIs(TxLength, buf), versionIsValid(buf), GroupResult>>)

\* the predicates VerifyBlock runs ahead of the signature, on blk
BlkBeforeSignature ==
    runAsserts(<<lengthIsValid(blk), versionIsValid(blk)>>)

TxAltered == alt >= 0 /\ err # NotVerified

BlkAltered == balt >= 0 /\ berr # NotVerified

-----------------------------------------------------------------------------
(* What section 4.3 says of the block in blk. *)

BlkVerified == berr # NotVerified

\* section 4.3.1: at least one transaction, and as many as the count says
BlkLenOk ==
    /\ ~blk.isnil
    /\ len(blk) >= HeaderLength + TxLength
    /\ len(blk) = HeaderLength + TxLength * Uint16(blk.data, 69)

BlkVerOk == blk.data[1] \in {Genesis, Basic}

BlkSigOk ==
    ed25519Verify(SubSeq(blk.data, 72, 103), SubSeq(blk.data, 1, 103),
                  SubSeq(blk.data, 104, 167))

BlkPrevZero == SubSeq(blk.data, 2, 33) = Zeros(32)

\* section 4.3.2, the previous-hash rule
BlkPrevOk == IF blk.data[1] = Genesis THEN BlkPrevZero ELSE ~BlkPrevZero

BlkN == Uint16(blk.data, 69)

BlkTx(i) == SubSeq(blk.data, HeaderLength + TxLength * i + 1, HeaderLength + TxLength * (i + 1))

\* section 4.3.2, the rule on the transactions' version bytes
BlkKindOk ==
    \A i \in 0..(BlkN - 1) : (BlkTx(i)[1] = Genesis) <=> (blk.data[1] = Genesis)

BlkSameTxTwice == \E i, j \in 0..(BlkN - 1) : i < j /\ BlkTx(i) = BlkTx(j)

BlkSameHashTwice ==
    \E i, j \in 0..(BlkN - 1) : i < j /\ sha256Sum(BlkTx(i)) = sha256Sum(BlkTx(j))

\* section 4.3.3: duplicates, then the root against bytes [33, 65)
BlkMerkleErr ==
    IF BlkSameHashTwice THEN ErrNonUniqueTx
    ELSE IF CalculateMerkleRoot(blk).hsh # SubSeq(blk.data, 34, 65) THEN ErrInvalidMerkle
    ELSE NoErr

BlkTxsOk == \A i \in 0..(BlkN - 1) : VerifyTransaction(MkSlice(BlkTx(i))) = NoErr

BlkHoldsTxs == len(blk) >= HeaderLength + TxLength * BlkN

MerkleCalled == mrk # NoMerkle

ParReturned == par.ret # "none"

\* C16: whatever the interleaving and the number of goroutines, the fan-out
\* answers InvalidTransaction when some transaction of the block fails
\* VerifyTransaction and nil when all pass; a failure a goroutine has
\* written is not lost to a goroutine that saw valid transactions only.
C16_FanOut ==
    /\ ParReturned =>
          /\ par.ret = (IF BlkTxsOk THEN NoErr ELSE ErrInvalidTx)
          /\ par.ret = allTransactionsAreValid(blk)
    /\ \A w \in 1..Len(par.pc) :
          (par.er[w] = ErrInvalidTx /\ par.pc[w] \in {"done", "exit"})
              => par.err = <<1, 1>>

\* two goroutines, one that saw a failing transaction and one that saw
\* none, and the failure is the result
C16_Witness ==
    /\ par.ret = ErrInvalidTx
    /\ \E v, w \in 1..Len(par.pc) : par.er[v] = NoErr /\ par.er[w] = ErrInvalidTx

MerkleReturned == mrk # NoMerkle /\ mrk.pc = "ret"

\* the leaves H(tx_i) of section 4.3.3
RefLeaves == [k \in 1..BlkN |-> sha256Sum(BlkTx(k - 1))]

\* the next level: H(h[2i] || h[min(2i+1, last)]) for i = 0..ceil(n/2)-1
RefLevel(hs) ==
    [k \in 1..((Len(hs) + 1) \div 2) |->
        sha256Sum(hs[2 * k - 1] \o hs[IF 2 * k <= Len(hs) THEN 2 * k ELSE Len(hs)])]

RECURSIVE RefRoot(_)
RefRoot(hs) == IF Len(hs) = 1 THEN hs[1] ELSE RefRoot(RefLevel(hs))

\* C18: for N >= 1 transactions with pairwise distinct hashes the root
\* CalculateMerkleRoot returns is that of the reference reduction, the leaf
\* itself for N = 1, and no inner iteration reads an entry of the hash array
\* written earlier in the same level.
C18_MerkleReference ==
    /\ mrk # NoMerkle => ~mrk.stale
    /\ (MerkleReturned /\ BlkN >= 1 /\ BlkHoldsTxs /\ ~BlkSameHashTwice) =>
          /\ mrk.err = NoErr
          /\ mrk.hsh = RefRoot(RefLeaves)
          /\ BlkN = 1 => mrk.hsh = sha256Sum(BlkTx(0))
          /\ CalculateMerkleRoot(blk) = [hsh |-> mrk.hsh, err |-> mrk.err]

\* five leaves: a level of odd width twice (5, then 3)
C18_Witness ==
    /\ MerkleReturned
    /\ BlkN = 5
    /\ mrk.err = NoErr
    /\ Len(mrk.hsh) = 32

\* C19 as stated: CalculateMerkleRoot returns a 32-byte root or
\* NonUniqueTransaction for every buffer, also for NewBlock and for a count
\* above the transactions present, and never indexes outside h or the buffer.
C19_RootOrNonUnique ==
    MerkleReturned =>
        \/ mrk.err = NoErr /\ Len(mrk.hsh) = 32
        \/ mrk.err = ErrNonUniqueTx

\* C20 as stated: every call of AppendTransaction appends 150 bytes and adds
\* one to the count at bytes [69, 71), so the block's length stays
\* 167 + 150 TxCount, for any number of calls; the other header bytes and
\* the transactions appended before are unchanged.
C20_AppendKeepsLength ==
    [][/\ Len(blk'.data) = Len(blk.data) + TxLength
       /\ Block_TxCount(blk'.data) = Block_TxCount(blk.data) + 1
       /\ blockLen' = HeaderLength + TxLength * Block_TxCount(blk'.data)
       /\ SubSeq(blk'.data, 1, 69) = SubSeq(blk.data, 1, 69)
       /\ SubSeq(blk'.data, 72, Len(blk.data)) = SubSeq(blk.data, 72, Len(blk.data))]_vars

PrefixSet == bech.src = "prefix"

\* the prefix bytes of the buffer, and its Prefix()
PfxOffset == IF len(buf) = AddressLength THEN 0 ELSE 35

PfxText == IF len(buf) = AddressLength THEN Address_Prefix(buf.data) ELSE Prefix(buf.data)

\* C21: SetPrefix(p) followed by Prefix() gives p for every three-letter
\* prefix, the stored version is (c0 << 10) | (c1 << 5) | c2 with a..z as
\* 1..26, 21929 for "umi" and never 0; "genesis" is stored as 0 and read
\* back as "genesis"; on an address and on a transaction alike.
C21_PrefixRoundTrip ==
    PrefixSet =>
        /\ PfxText = bech.str
        /\ IF bech.str = StrGenesis
           THEN Uint16(buf.data, PfxOffset) = 0
           ELSE /\ Uint16(buf.data, PfxOffset) =
                      (bech.str[1] - 96) * 1024 + (bech.str[2] - 96) * 32 + (bech.str[3] - 96)
                /\ Uint16(buf.data, PfxOffset) # 0
        /\ bech.str = StrUmi => Uint16(buf.data, PfxOffset) = 21929

C21_Witness ==
    /\ PrefixSet
    /\ len(buf) = TxLength
    /\ bech.str = StrUmi
    /\ Uint16(buf.data, 35) = 21929
    /\ Prefix(buf.data) = StrUmi

\* VerifyTransaction has run on a structure transaction and none of the
\* predicates up to the two on the structure prefix has failed
StructPrefixPassed ==
    /\ Verified
    /\ len(buf) = TxLength
    /\ buf.data[1] \in {CreateStructure, UpdateStructure}
    /\ err \notin {ErrInvalidLength, ErrInvalidVersion, ErrInvalidSender, ErrInvalidPrefix}

\* C29: when the structure-prefix predicates pass, Prefix() is three letters
\* a..z, neither "umi" nor "genesis", whatever the two bytes at [35..37)
\* are, and SetPrefix of that text gives the same two bytes.
C29_PassedPrefixIsLetters ==
    StructPrefixPassed =>
        /\ Len(Prefix(buf.data)) = 3
        /\ \A k \in 1..Len(Prefix(buf.data)) : Prefix(buf.data)[k] \in Letters
        /\ Prefix(buf.data) # StrUmi
        /\ Prefix(buf.data) # StrGenesis
        /\ prefixToVersion(Prefix(buf.data)) = SubSeq(buf.data, 36, 37)

-----------------------------------------------------------------------------
(* Bech32 claims, checked on SpecB32. *)

B32Encoded == bech.src = "encoded"

B32Decoded == bech.src \in {"encoded", "crafted"} /\ bech.err # "none"

\* 0-based index of the last '1' of the string, -1 without one
B32Sep == LastIndexByte(ToLower(bech.str), 49)

\* the characters between the last '1' and the 6 checksum characters
B32Data ==
    IF B32Sep = -1 \/ B32Sep + 1 > Len(bech.str) - 6 THEN <<>>
    ELSE SubSeq(ToLower(bech.str), B32Sep + 2, Len(bech.str) - 6)

B32Prefix == IF B32Sep = -1 THEN <<>> ELSE SubSeq(ToLower(bech.str), 1, B32Sep)

C23_AddressOrInvalidAddress ==
    B32Decoded =>
        \/ bech.err = ErrInvalidAddress
        \/ /\ bech.err = NoErr
           /\ Len(bech.adr) = AddressLength
           /\ \/ B32Prefix = StrGenesis
              \/ Len(B32Prefix) = 3 /\ \A i \in 1..3 : B32Prefix[i] \in Letters

\* C24: a string whose last '1' is absent or not at index len - 59 is
\* rejected; an accepted string has 52 data characters after a 3-character
\* (length 62) or 7-character (length 66) prefix, and its 32 key bytes are
\* exactly the bytes its data characters regroup to.
C24_SeparatorPosition ==
    B32Decoded =>
        /\ B32Sep = -1 \/ B32Sep # Len(bech.str) - 59 => bech.err = ErrInvalidAddress
        /\ bech.err = NoErr =>
             /\ Len(B32Data) = 52
             /\ Len(B32Prefix) = IF Len(bech.str) = 62 THEN 3 ELSE 7
             /\ bech32Convert5to8(B32Data).out = Address_PublicKey(bech.adr)

-----------------------------------------------------------------------------
(* Field setters and getters, checked on SpecFld. *)

\* fields of the address layouts and of the structure layout
BasicFields == {"version", "sender", "recipient", "value"}

StructureFields == {"version", "sender", "prefix", "profit", "fee", "name"}

SameLayout(f, g) ==
    \/ f \in BasicFields /\ g \in BasicFields
    \/ f \in StructureFields /\ g \in StructureFields

\* C25 as stated: a call of one field's setter leaves the getter output of
\* every other field unchanged.
C25_FieldIndependence ==
    [][\A g \in Fields \ {bech'.src} : Get(g, buf'.data) = Get(g, buf.data)]_vars

\* C25: a call of one field's setter leaves unchanged the getter output of
\* every other field of the same layout (version, sender, recipient, value;
\* or version, sender, prefix, profit percent, fee percent, name).
C25_SameLayoutIndependence ==
    [][\A g \in Fields \ {bech'.src} :
          SameLayout(bech'.src, g) => Get(g, buf'.data) = Get(g, buf.data)]_vars

C25_Witness ==
    /\ bech.str = <<"fee", "name">>
    /\ Name(buf.data).text = Fill(35, 98)
    /\ FeePercent(buf.data) = 1
    /\ ProfitPercent(buf.data) = 100
    /\ Prefix(buf.data) = StrAaa

-----------------------------------------------------------------------------
(* The value bound on structure transactions, checked on SpecLst. *)

\* a structure transaction whose sender, prefix, profit percent, fee percent
\* and name (valid UTF-8, 0..35 bytes) are all valid
LstValidStructure ==
    /\ Version(buf.data) \in {CreateStructure, UpdateStructure}
    /\ SenderVer = umi
    /\ Len(Prefix(buf.data)) = 3
    /\ \A i \in 1..3 : Prefix(buf.data)[i] \in Letters
    /\ Prefix(buf.data) # StrUmi
    /\ ProfitPercent(buf.data) \in 100..500
    /\ FeePercent(buf.data) \in 0..2000
    /\ SpecNameOk

\* C26: the list verifier never gives InvalidValue for a structure
\* transaction whose sender, prefix, percents and name are valid.
C26_StructureValueHarmless ==
    lerr # NotVerified /\ LstValidStructure => lerr # ErrInvalidValue

-----------------------------------------------------------------------------
(* The fan-out as a concurrent program, checked on SpecPar / FairSpecPar.  *)

ParWorkers == 1..Len(par.pc)

\* C27: the fan-out returns in every fair execution; no goroutine is ever
\* started before the channel holds all the transactions and is closed, so
\* a goroutine in its loop can always take its next step; and the call has
\* returned only when every goroutine has finished.
C27_FanOutTerminates ==
    /\ <>ParReturned
    /\ [](ParWorkers # {} =>
            par.closed /\ par.sent = Block_TxCount(blk.data))
    /\ [](\A w \in ParWorkers : par.pc[w] = "fn" => par.ch # <<>> \/ par.closed)
    /\ [](ParReturned =>
            Len(par.pc) = par.cpu /\ \A w \in ParWorkers : par.pc[w] = "exit")

C27_Witness ==
    /\ ParReturned
    /\ par.cpu >= 2
    /\ Block_TxCount(blk.data) >= 2
    /\ \A w \in ParWorkers : par.pc[w] = "exit"

\* C30: no two goroutines are at the assignment err = er at the same time.
C30_OneWriterAtATime ==
    Cardinality({w \in ParWorkers : par.pc[w] \in {"word0", "word1"}}) <= 1

-----------------------------------------------------------------------------
(* Two transaction sequences and their roots, checked on SpecTwo. *)

\* the transactions of a block, in order
TxsOf(b) == [k \in 1..Block_TxCount(b.data) |-> Block_Transaction(b.data, k - 1)]

\* every message the reduction of the leaves hs hashes above the leaves
RECURSIVE LevelInputs(_)
LevelInputs(hs) ==
    IF Len(hs) <= 1 THEN {}
    ELSE {hs[2 * k - 1] \o hs[IF 2 * k <= Len(hs) THEN 2 * k ELSE Len(hs)] :
            k \in 1..((Len(hs) + 1) \div 2)}
         \cup LevelInputs(RefLevel(hs))

\* every message hashed for the Merkle root of the sequence txs
HashInputs(txs) ==
    {txs[k] : k \in 1..Len(txs)} \cup LevelInputs([k \in 1..Len(txs) |-> sha256Sum(txs[k])])

\* the hash is injective on the messages of both computations
HashInjective ==
    LET hashed == {<<x, sha256Sum(x)>> : x \in HashInputs(TxsOf(blk)) \cup HashInputs(TxsOf(buf))}
    IN  \A p, q \in hashed : p[2] = q[2] => p[1] = q[1]

PairDone == mrk # NoMerkle /\ mrk.pc = "pair"

\* C28: with the hash injective, two different transaction sequences that
\* CalculateMerkleRoot both accepts never have the same root; a sequence
\* that repeats a transaction is answered NonUniqueTransaction.
C28_DistinctRoots ==
    PairDone /\ HashInjective =>
        /\ (mrk.err = NoErr /\ mrk.err2 = NoErr /\ TxsOf(blk) # TxsOf(buf))
              => mrk.hsh # mrk.hsh2
        /\ (\E i, j \in 1..Len(TxsOf(buf)) : i # j /\ TxsOf(buf)[i] = TxsOf(buf)[j])
              => mrk.err2 = ErrNonUniqueTx

\* a, b, c against a, b, c, c: the reduction of both gives one root, and the
\* second sequence is refused
C28_Witness ==
    /\ PairDone
    /\ HashInjective
    /\ Len(TxsOf(blk)) = 3
    /\ TxsOf(buf) = Append(TxsOf(blk), TxsOf(blk)[3])
    /\ mrk.err = NoErr
    /\ mrk.err2 = ErrNonUniqueTx
    /\ CalculateMerkleRoot_NoUniq(buf).hsh = mrk.hsh

====
